---- MODULE Spec2Model ----
(***************************************************************************)
(* Device activity ingestion and daily energy balance: the DeviceService   *)
(* and HealthKitService of server/src/services, over the two tables they   *)
(* write (connectedDevice, dailyActivitySummary) and the one they only     *)
(* read (meal).                                                            *)
(*                                                                         *)
(* Time is counted in ticks, TicksPerDay ticks to a calendar day (UTC).    *)
(* A Date value is a tick number; a date string is a record [day, tod]     *)
(* ("YYYY-MM-DD" has tod = 0, an ISO string with a time has tod > 0) or    *)
(* BadDate, a string new Date() cannot parse.                              *)
(*                                                                         *)
(* storage is the AsyncStorage of the client (client/src/services): the    *)
(* items it holds, by key.  inflight holds the syncDeviceData calls that   *)
(* run step by step, each with the await it has reached.                   *)
(***************************************************************************)
EXTENDS Integers, Sequences, FiniteSets, TLC

VARIABLES devices, summaries, meals, now, nextId, last, storage, inflight

vars == <<devices, summaries, meals, now, nextId, last, storage, inflight>>

(***************************************************************************)
(* Bounds of the model.                                                    *)
(***************************************************************************)
TicksPerDay == 2
MaxNow == 2
MaxDevices == 2
MaxCalls == 3
CalScale == 4
MaxIn == 30
MaxOut == 20
MaxSeries == 6
MaxWindow == 2
MaxTokenLen == 2
MaxInflight == 2
MaxConnects == 2

(***************************************************************************)
(* Program constants.                                                      *)
(***************************************************************************)
BackfillDays == 7
TokenLifetime == 1
SampleBmr == 1800

\* undefined and NULL in a numeric position; no payload number reaches them
Undef == 0 - 1000000
Null == 0 - 1000001

\* a platform read whose callback reports an error
Rejected == 0 - 1000002

\* bmr: 1800, the estimate the client sends with each day's record
DefaultBmr == 1800

\* date strings are records [day, tod]; these two are the absent and the unparsable one
NoDate == [day |-> 0 - 2, tod |-> 0 - 2]
BadDate == [day |-> 0 - 1, tod |-> 0 - 1]
InvalidDate == 0 - 1

\* a list that lets an unknown vendor through
TypesWithUnknown ==
    {"APPLE_HEALTH", "GOOGLE_FIT", "FITBIT", "GARMIN", "WHOOP", "SAMSUNG_HEALTH",
     "POLAR", "SUUNTO", "WITHINGS", "OURA", "AMAZFIT", "HUAWEI_HEALTH", "BOGUS"}

validDeviceTypes ==
    {"APPLE_HEALTH", "GOOGLE_FIT", "FITBIT", "GARMIN", "WHOOP", "SAMSUNG_HEALTH",
     "POLAR", "SUUNTO", "WITHINGS", "OURA", "AMAZFIT", "HUAWEI_HEALTH"}

(***************************************************************************)
(* JavaScript and Date helpers.                                            *)
(***************************************************************************)
\* x || 0
OrZero(x) == IF x \in {Undef, Null, 0} THEN 0 ELSE x

\* new Date().toISOString().split("T")[0]: the calendar day of a tick
ToISODate(ts) == [day |-> ts \div TicksPerDay, tod |-> 0]

\* new Date(string)
NewDate(s) == IF s = BadDate THEN InvalidDate ELSE s.day * TicksPerDay + s.tod

\* endDate.setDate(endDate.getDate() + 1)
NextDay(ts) == ts + TicksPerDay

\* a timestamp column, which would keep the time of day
DateKeepsTime(ts) == ts

\* the date column of dailyActivitySummary keeps the calendar day only
DateColumn(ts) == (ts \div TicksPerDay) * TicksPerDay

DayString(d) == [day |-> d, tod |-> 0]

\* Math.round of a quantity counted in 1/CalScale kcal, the result in kcal
MathRound(x) == (2 * x + CalScale) \div (2 * CalScale)

(***************************************************************************)
(* Credential vault: Buffer.from(token).toString("base64") and back.       *)
(* A token is a sequence of characters; "S" is an unpaired surrogate,      *)
(* which the UTF-8 encoder replaces by U+FFFD, written "R".  An optional   *)
(* token is <<>> (absent) or <<token>>; a token column is <<>> (NULL) or   *)
(* <<value>>.                                                              *)
(***************************************************************************)
Utf8(token) == [i \in 1..Len(token) |-> IF token[i] = "S" THEN "R" ELSE token[i]]

encryptToken(token) == [base64 |-> Utf8(token)]

\* a decoder that loses the last character
decryptLossy(encryptedToken) ==
    SubSeq(encryptedToken.base64, 1, Len(encryptedToken.base64) - 1)

\* Buffer.from(encryptedToken, "base64").toString()
decryptToken(encryptedToken) == encryptedToken.base64

\* accessToken ? this.encryptToken(accessToken) : null
TokenColumn(tok) ==
    IF tok # <<>> /\ tok[1] # <<>> THEN <<encryptToken(tok[1])>> ELSE <<>>

\* an expiry for every token that is given, the empty string included
ExpiryGiven(tok, nowv) ==
    IF tok # <<>> THEN <<nowv + TokenLifetime>> ELSE <<>>

\* accessToken ? new Date(Date.now() + 3600000) : null
ExpiryColumn(tok, nowv) ==
    IF tok # <<>> /\ tok[1] # <<>> THEN <<nowv + TokenLifetime>> ELSE <<>>

(***************************************************************************)
(* Prisma write semantics: a field given as undefined is left alone by an  *)
(* update and stored as NULL by a create.                                  *)
(***************************************************************************)
SummaryNumeric ==
    {"steps", "calories_burned", "active_minutes", "bmr_estimate", "heart_rate_avg",
     "weight_kg", "body_fat_percentage", "sleep_hours", "distance_km"}

SummaryColumns ==
    SummaryNumeric \cup
    {"user_id", "device_id", "date", "source_device", "sync_timestamp", "raw_data"}

ApplyUpdateSum(row, data) ==
    [f \in DOMAIN row |->
        IF f \in DOMAIN data /\ (f \notin SummaryNumeric \/ data[f] # Undef)
        THEN (IF f = "steps" THEN row[f] + data[f] ELSE data[f])
        ELSE row[f]]

ApplyUpdate(row, data) ==
    [f \in DOMAIN row |->
        IF f \in DOMAIN data /\ (f \notin SummaryNumeric \/ data[f] # Undef)
        THEN data[f] ELSE row[f]]

ApplyCreate(data) ==
    [f \in SummaryColumns |->
        IF f \notin DOMAIN data THEN Null
        ELSE IF f \in SummaryNumeric /\ data[f] = Undef THEN Null ELSE data[f]]

\* prisma.dailyActivitySummary.upsert on the compound key user_id_device_id_date
UpsertNoLookup(table, u, d, date, update, create) ==
    table \cup {ApplyCreate(create)}

UpsertSummary(table, u, d, date, update, create) ==
    LET hit == {r \in table :
                    r.user_id = u /\ r.device_id = d /\ r.date = DateColumn(date)}
    IN  IF hit = {}
        THEN table \cup {ApplyCreate(create)}
        ELSE (table \ hit) \cup {ApplyUpdate(r, update) : r \in hit}

\* the row the upsert returns
SummaryAt(table, u, d, date) ==
    {r \in table : r.user_id = u /\ r.device_id = d /\ r.date = DateColumn(date)}

\* a lookup by id alone, whoever owns the device
FindDeviceAnyOwner(devs, u, d) ==
    {x \in devs : x.connected_device_id = d}

\* prisma.connectedDevice.findFirst({ where: { connected_device_id, user_id } })
FindDevice(devs, u, d) ==
    {x \in devs : x.connected_device_id = d /\ x.user_id = u}

\* prisma.connectedDevice.update({ where: { connected_device_id }, data })
UpdateDevice(devs, d, data) ==
    {IF x.connected_device_id = d
     THEN [f \in DOMAIN x |-> IF f \in DOMAIN data THEN data[f] ELSE x[f]]
     ELSE x : x \in devs}

(***************************************************************************)
(* DeviceService.syncDeviceData as a function of the tables.  fail names   *)
(* the persistence call that throws: "none", "upsert" or "update".         *)
(***************************************************************************)
SyncUpdateData(activityData, nowv) ==
    [steps |-> OrZero(activityData.steps),
     calories_burned |-> OrZero(activityData.caloriesBurned),
     active_minutes |-> OrZero(activityData.activeMinutes),
     bmr_estimate |-> OrZero(activityData.bmr),
     heart_rate_avg |-> activityData.heartRate,
     weight_kg |-> activityData.weight,
     body_fat_percentage |-> activityData.bodyFat,
     sleep_hours |-> activityData.sleepHours,
     distance_km |-> activityData.distance,
     sync_timestamp |-> nowv,
     raw_data |-> activityData]

SyncCreateData(u, d, date, name, activityData, nowv) ==
    [user_id |-> u,
     device_id |-> d,
     date |-> DateColumn(date),
     steps |-> OrZero(activityData.steps),
     calories_burned |-> OrZero(activityData.caloriesBurned),
     active_minutes |-> OrZero(activityData.activeMinutes),
     bmr_estimate |-> OrZero(activityData.bmr),
     heart_rate_avg |-> activityData.heartRate,
     weight_kg |-> activityData.weight,
     body_fat_percentage |-> activityData.bodyFat,
     sleep_hours |-> activityData.sleepHours,
     distance_km |-> activityData.distance,
     source_device |-> name,
     sync_timestamp |-> nowv,
     raw_data |-> activityData]

SyncTouchDevice(nowv) ==
    [last_sync_time |-> nowv, connection_status |-> "CONNECTED"]

\* const today = new Date().toISOString().split("T")[0]; date: new Date(today)
SyncTargetDate(activityData, nowv) == NewDate(ToISODate(nowv))

SyncDeviceDataEff(devs, sums, u, d, activityData, fail, nowv) ==
    LET device == FindDevice(devs, u, d)
        date == SyncTargetDate(activityData, nowv)
        name == (CHOOSE x \in device : TRUE).device_name
        sums2 == UpsertSummary(sums, u, d, date,
                               SyncUpdateData(activityData, nowv),
                               SyncCreateData(u, d, date, name, activityData, nowv))
    IN  IF device = {} \/ fail = "upsert"
        THEN [devices |-> devs, summaries |-> sums, ok |-> FALSE, ret |-> <<>>]
        ELSE IF fail = "update"
        THEN [devices |-> devs, summaries |-> sums2, ok |-> FALSE, ret |-> <<>>]
        ELSE [devices |-> UpdateDevice(devs, d, SyncTouchDevice(nowv)),
              summaries |-> sums2, ok |-> TRUE,
              ret |-> <<SummaryAt(sums2, u, d, date)>>]

(***************************************************************************)
(* DeviceService.performInitialSync: one syncDeviceData call per generated *)
(* date, each in its own try/catch.  samples[i] is the generated sample    *)
(* of the i-th date and fails[i] the persistence call that throws in it.   *)
(***************************************************************************)
\* the sample of one day; k stands for the Math.random() draws
SampleData(k) ==
    [steps |-> 5000 + k,
     caloriesBurned |-> (200 + k) * CalScale,
     activeMinutes |-> 30 + k,
     bmr |-> SampleBmr * CalScale,
     heartRate |-> 60 + k,
     weight |-> 70 + k,
     bodyFat |-> Undef,
     sleepHours |-> Undef,
     distance |-> 2 + k,
     date |-> NoDate]

\* a backfill without the try/catch around each day: the first failure is thrown
RECURSIVE BackfillUncaught(_, _, _, _, _, _, _, _)
BackfillUncaught(devs, sums, u, d, samples, fails, i, nowv) ==
    IF i > BackfillDays
    THEN [devices |-> devs, summaries |-> sums, threw |-> FALSE]
    ELSE LET r == SyncDeviceDataEff(devs, sums, u, d, samples[i], fails[i], nowv)
         IN  IF r.ok
             THEN BackfillUncaught(r.devices, r.summaries, u, d, samples, fails, i + 1, nowv)
             ELSE [devices |-> r.devices, summaries |-> r.summaries, threw |-> TRUE]

\* threw: an error leaves performInitialSync; its catch blocks let none out
RECURSIVE PerformInitialSync(_, _, _, _, _, _, _, _)
PerformInitialSync(devs, sums, u, d, samples, fails, i, nowv) ==
    IF i > BackfillDays
    THEN [devices |-> devs, summaries |-> sums, threw |-> FALSE]
    ELSE LET r == SyncDeviceDataEff(devs, sums, u, d, samples[i], fails[i], nowv)
         IN  PerformInitialSync(r.devices, r.summaries, u, d, samples, fails, i + 1, nowv)

(***************************************************************************)
(* The operations.  last records the call just made and what it returned:  *)
(* ret is <<>> for null, void or a throw, and <<value>> otherwise; arg is  *)
(* the argument of a read, which leaves no other trace in the state, and   *)
(* again tells that a syncDeviceData call repeats the call before it.      *)
(***************************************************************************)
Call(op, u, d, arg, ok, ret) ==
    [op |-> op, user |-> u, dev |-> d, arg |-> arg, ok |-> ok, ret |-> ret,
     again |-> FALSE, n |-> last.n + 1]

\* a read: not counted
Other(op, u, arg, ok, ret) == [Call(op, u, 0, arg, ok, ret) EXCEPT !.n = last.n]

\* the model follows MaxCalls writing calls
MayCall == last.n < MaxCalls

\* DeviceService.connectDevice; dbFail: the device update or create throws
ConnectUpdateData(deviceName, accessToken, refreshToken, nowv) ==
    [device_name |-> deviceName,
     connection_status |-> "CONNECTED",
     last_sync_time |-> nowv,
     access_token_encrypted |-> TokenColumn(accessToken),
     refresh_token_encrypted |-> TokenColumn(refreshToken),
     token_expires_at |-> ExpiryColumn(accessToken, nowv)]

ConnectCreateData(id, u, deviceType, deviceName, accessToken, refreshToken, nowv) ==
    [connected_device_id |-> id,
     user_id |-> u,
     device_name |-> deviceName,
     device_type |-> deviceType,
     connection_status |-> "CONNECTED",
     last_sync_time |-> nowv,
     is_primary_device |-> TRUE,
     access_token_encrypted |-> TokenColumn(accessToken),
     refresh_token_encrypted |-> TokenColumn(refreshToken),
     token_expires_at |-> ExpiryColumn(accessToken, nowv)]

\* a lookup that never finds the device
ExistingAlwaysNone(devs, u, deviceType) == {}

\* prisma.connectedDevice.findFirst({ where: { user_id, device_type } })
ExistingDevice(devs, u, deviceType) ==
    {x \in devs : x.user_id = u /\ x.device_type = deviceType}

ConnectDevice(u, deviceType, deviceName, accessToken, refreshToken, samples, fails, dbFail) ==
    /\ MayCall
    /\ LET arg == [deviceType |-> deviceType, deviceName |-> deviceName,
                   accessToken |-> accessToken, refreshToken |-> refreshToken]
           existing == ExistingDevice(devices, u, deviceType)
       IN  IF deviceType \notin validDeviceTypes \/ dbFail
           THEN /\ last' = Call("connectDevice", u, 0, arg, FALSE, <<>>)
                /\ UNCHANGED <<devices, summaries, meals, now, nextId, storage, inflight>>
           ELSE IF existing # {}
           THEN \E e \in existing :
                   LET id == e.connected_device_id
                       devs1 == UpdateDevice(devices, id,
                                    ConnectUpdateData(deviceName, accessToken, refreshToken, now))
                       updatedDevice == CHOOSE x \in devs1 : x.connected_device_id = id
                       after == PerformInitialSync(devs1, summaries, u, id, samples, fails, 1, now)
                   IN  /\ devices' = after.devices
                       /\ summaries' = after.summaries
                       /\ last' = Call("connectDevice", u, id, arg, ~after.threw,
                                       IF after.threw THEN <<>> ELSE <<updatedDevice>>)
                       /\ UNCHANGED <<meals, now, nextId, storage, inflight>>
           ELSE LET newDevice == ConnectCreateData(nextId, u, deviceType, deviceName,
                                                   accessToken, refreshToken, now)
                    after == PerformInitialSync(devices \cup {newDevice}, summaries, u, nextId,
                                                samples, fails, 1, now)
                IN  /\ nextId <= MaxDevices
                    /\ devices' = after.devices
                    /\ summaries' = after.summaries
                    /\ nextId' = nextId + 1
                    /\ last' = Call("connectDevice", u, nextId, arg, ~after.threw,
                                    IF after.threw THEN <<>> ELSE <<newDevice>>)
                    /\ UNCHANGED <<meals, now, storage, inflight>>

\* an update that leaves the token material in place
DisconnectStatusOnly ==
    [connection_status |-> "DISCONNECTED"]

\* DeviceService.disconnectDevice; dbFail: the device update throws
DisconnectData ==
    [connection_status |-> "DISCONNECTED",
     access_token_encrypted |-> <<>>,
     refresh_token_encrypted |-> <<>>,
     token_expires_at |-> <<>>]

DisconnectDevice(u, d, dbFail) ==
    /\ MayCall
    /\ LET device == FindDevice(devices, u, d)
       IN  IF device = {} \/ dbFail
           THEN /\ last' = Call("disconnectDevice", u, d, <<>>, FALSE, <<>>)
                /\ UNCHANGED <<devices, summaries, meals, now, nextId, storage, inflight>>
           ELSE /\ devices' = UpdateDevice(devices, d, DisconnectData)
                /\ last' = Call("disconnectDevice", u, d, <<>>, TRUE, <<>>)
                /\ UNCHANGED <<summaries, meals, now, nextId, storage, inflight>>

(***************************************************************************)
(* DeviceService.getDeviceTokens and updateDeviceTokens.  A token result   *)
(* holds each token as <<>> (undefined) or <<token>>; the result {} of a   *)
(* missing device reads the same.                                          *)
(***************************************************************************)
\* device.access_token_encrypted ? this.decryptToken(...) : undefined
DecryptColumn(col) == IF col # <<>> THEN <<decryptToken(col[1])>> ELSE <<>>

DeviceTokens(devs, u, d) ==
    LET device == FindDevice(devs, u, d)
    IN  IF device = {} THEN [accessToken |-> <<>>, refreshToken |-> <<>>]
        ELSE [accessToken |->
                 DecryptColumn((CHOOSE x \in device : TRUE).access_token_encrypted),
              refreshToken |->
                 DecryptColumn((CHOOSE x \in device : TRUE).refresh_token_encrypted)]

\* dbFail: the lookup throws; the catch answers {}
GetDeviceTokens(u, d, dbFail) ==
    /\ last' = [Other("getDeviceTokens", u, <<>>, TRUE,
                      <<IF dbFail THEN [accessToken |-> <<>>, refreshToken |-> <<>>]
                        ELSE DeviceTokens(devices, u, d)>>)
                EXCEPT !.dev = d, !.again = dbFail]
    /\ UNCHANGED <<devices, summaries, meals, now, nextId, storage, inflight>>

\* updateMany({ where: { connected_device_id, user_id }, data }): a token that is not
\* given (or is "") leaves its column, and the expiry, as they are
TokenUpdateData(accessToken, refreshToken, nowv) ==
    LET given == (IF TokenColumn(accessToken) # <<>>
                  THEN {"access_token_encrypted", "token_expires_at"} ELSE {})
                 \cup (IF TokenColumn(refreshToken) # <<>>
                       THEN {"refresh_token_encrypted"} ELSE {})
    IN  [f \in given |->
            IF f = "access_token_encrypted" THEN TokenColumn(accessToken)
            ELSE IF f = "refresh_token_encrypted" THEN TokenColumn(refreshToken)
            ELSE ExpiryColumn(accessToken, nowv)]

UpdateDeviceTokens(u, d, accessToken, refreshToken, dbFail) ==
    /\ MayCall
    /\ IF dbFail
       THEN /\ last' = Call("updateDeviceTokens", u, d, <<>>, FALSE, <<>>)
            /\ UNCHANGED <<devices, summaries, meals, now, nextId, storage, inflight>>
       ELSE /\ devices' = IF FindDevice(devices, u, d) = {} THEN devices
                          ELSE UpdateDevice(devices, d,
                                            TokenUpdateData(accessToken, refreshToken, now))
            /\ last' = Call("updateDeviceTokens", u, d,
                            [accessToken |-> accessToken, refreshToken |-> refreshToken],
                            TRUE, <<>>)
            /\ UNCHANGED <<summaries, meals, now, nextId, storage, inflight>>

\* DeviceService.syncDeviceData
SyncDeviceData(u, d, activityData, fail) ==
    /\ MayCall
    /\ LET r == SyncDeviceDataEff(devices, summaries, u, d, activityData, fail, now)
           again == /\ r.ok /\ last.ok /\ last.op = "syncDeviceData"
                    /\ last.user = u /\ last.dev = d
                    /\ \A row \in last.ret[1] :
                          /\ row.raw_data = activityData
                          /\ row.date = SyncTargetDate(activityData, now)
       IN  /\ devices' = r.devices
           /\ summaries' = r.summaries
           /\ last' = [Call("syncDeviceData", u, d, <<>>, r.ok, r.ret)
                         EXCEPT !.again = again]
           /\ UNCHANGED <<meals, now, nextId, storage, inflight>>

\* a loop that stops at the first item whose merge throws
RECURSIVE BulkLoopAbort(_, _, _, _, _, _, _, _, _)
BulkLoopAbort(sums, results, u, d, name, activityDataArray, itemFails, i, nowv) ==
    IF i > Len(activityDataArray)
    THEN [summaries |-> sums, results |-> results]
    ELSE LET dayData == activityDataArray[i]
             date == NewDate(dayData.date)
             sums2 == UpsertSummary(sums, u, d, date,
                                    SyncUpdateData(dayData, nowv),
                                    SyncCreateData(u, d, date, name, dayData, nowv))
         IN  IF date = InvalidDate \/ i \in itemFails
             THEN [summaries |-> sums, results |-> results]
             ELSE BulkLoopAbort(sums2,
                           Append(results, CHOOSE r \in SummaryAt(sums2, u, d, date) : TRUE),
                           u, d, name, activityDataArray, itemFails, i + 1, nowv)

\* DeviceService.bulkSyncDeviceData: the loop over activityDataArray, each
\* item in its own try/catch; itemFails holds the indices whose upsert throws
RECURSIVE BulkLoop(_, _, _, _, _, _, _, _, _)
BulkLoop(sums, results, u, d, name, activityDataArray, itemFails, i, nowv) ==
    IF i > Len(activityDataArray)
    THEN [summaries |-> sums, results |-> results]
    ELSE LET dayData == activityDataArray[i]
             date == NewDate(dayData.date)
             sums2 == UpsertSummary(sums, u, d, date,
                                    SyncUpdateData(dayData, nowv),
                                    SyncCreateData(u, d, date, name, dayData, nowv))
         IN  IF date = InvalidDate \/ i \in itemFails
             THEN BulkLoop(sums, results, u, d, name, activityDataArray, itemFails,
                           i + 1, nowv)
             ELSE BulkLoop(sums2,
                           Append(results, CHOOSE r \in SummaryAt(sums2, u, d, date) : TRUE),
                           u, d, name, activityDataArray, itemFails, i + 1, nowv)

BulkSyncDeviceData(u, d, activityDataArray, itemFails, updateFails) ==
    /\ MayCall
    /\ LET device == FindDevice(devices, u, d)
           name == (CHOOSE x \in device : TRUE).device_name
           r == BulkLoop(summaries, <<>>, u, d, name, activityDataArray, itemFails, 1, now)
       IN  IF device = {}
           THEN /\ last' = Call("bulkSyncDeviceData", u, d, <<>>, FALSE, <<>>)
                /\ UNCHANGED <<devices, summaries, meals, now, nextId, storage, inflight>>
           ELSE /\ summaries' = r.summaries
                /\ devices' = IF updateFails THEN devices
                              ELSE UpdateDevice(devices, d, SyncTouchDevice(now))
                /\ last' = Call("bulkSyncDeviceData", u, d, <<>>, ~updateFails,
                                IF updateFails THEN <<>> ELSE <<r.results>>)
                /\ UNCHANGED <<meals, now, nextId, storage, inflight>>

\* HealthKitService.saveHealthData: no device lookup; the upsert throws on an
\* invalid date and on a device_id that references no connectedDevice row
SaveUpdateData(data, nowv) ==
    [steps |-> data.steps,
     calories_burned |-> data.caloriesBurned,
     active_minutes |-> data.activeMinutes,
     heart_rate_avg |-> data.heartRate,
     weight_kg |-> data.weight,
     distance_km |-> data.distance,
     sync_timestamp |-> nowv]

SaveCreateData(u, d, date, data, nowv) ==
    [user_id |-> u,
     device_id |-> d,
     date |-> DateColumn(date),
     steps |-> data.steps,
     calories_burned |-> data.caloriesBurned,
     active_minutes |-> data.activeMinutes,
     heart_rate_avg |-> data.heartRate,
     weight_kg |-> data.weight,
     distance_km |-> data.distance,
     source_device |-> "HealthKit",
     sync_timestamp |-> nowv,
     raw_data |-> data]

SaveHealthData(u, d, data, dbFail) ==
    /\ MayCall
    /\ LET date == NewDate(data.date)
           sums2 == UpsertSummary(summaries, u, d, date, SaveUpdateData(data, now),
                                  SaveCreateData(u, d, date, data, now))
       IN  IF date = InvalidDate \/ dbFail
              \/ {x \in devices : x.connected_device_id = d} = {}
           THEN /\ last' = Call("saveHealthData", u, d, <<>>, FALSE, <<>>)
                /\ UNCHANGED <<devices, summaries, meals, now, nextId, storage, inflight>>
           ELSE /\ summaries' = sums2
                /\ last' = Call("saveHealthData", u, d, <<>>, TRUE,
                                <<SummaryAt(sums2, u, d, date)>>)
                /\ UNCHANGED <<devices, meals, now, nextId, storage, inflight>>

(***************************************************************************)
(* The meal table is written by the nutrition service; a row is            *)
(* [meal_id, user_id, created_at, calories], calories in 1/CalScale kcal   *)
(* or Null.                                                                *)
(***************************************************************************)
SaveMeal(u, calories) ==
    /\ MayCall
    /\ meals' = meals \cup {[meal_id |-> Cardinality(meals) + 1, user_id |-> u,
                             created_at |-> now, calories |-> calories]}
    /\ last' = Call("saveMeal", u, 0, <<>>, TRUE, <<>>)
    /\ UNCHANGED <<devices, summaries, now, nextId, storage, inflight>>

(***************************************************************************)
(* DeviceService.getDailyBalance.                                          *)
(***************************************************************************)
RECURSIVE SumCalories(_)
SumCalories(ms) ==
    IF ms = {} THEN 0
    ELSE LET m == CHOOSE x \in ms : TRUE
         IN  OrZero(m.calories) + SumCalories(ms \ {m})

\* a window that is closed at the end of the day
MealsInclusive(ms, u, startDate, endDate) ==
    {m \in ms : m.user_id = u /\ m.created_at >= startDate /\ m.created_at <= endDate}

\* prisma.meal.findMany({ where: { user_id, created_at: { gte, lt } } })
MealsOfDay(ms, u, startDate, endDate) ==
    {m \in ms : m.user_id = u /\ m.created_at >= startDate /\ m.created_at < endDate}

\* a lookup by date alone, whoever owns the row
LatestAnyOwner(sums, u, date) ==
    LET day == {r \in sums : r.date = date}
    IN  {r \in day : \A o \in day : o.sync_timestamp <= r.sync_timestamp}

\* prisma.dailyActivitySummary.findFirst({ where: { user_id, date },
\*   orderBy: { sync_timestamp: "desc" } }): a row no other row of the day is newer than
LatestActivity(sums, u, date) ==
    LET day == {r \in sums : r.user_id = u /\ r.date = date}
    IN  {r \in day : \A o \in day : o.sync_timestamp <= r.sync_timestamp}

Abs(x) == IF x < 0 THEN 0 - x ELSE x

\* thresholds that exclude their boundary
StatusStrict(balance, caloriesOut) ==
    IF caloriesOut <= 0 \/ 10 * Abs(balance) < caloriesOut THEN "balanced"
    ELSE IF 4 * Abs(balance) < caloriesOut THEN "slight_imbalance"
    ELSE "significant_imbalance"

\* balancePercent <= 0.1, <= 0.25 with balancePercent = |balance| / caloriesOut,
\* and 0 when caloriesOut is not positive
BalanceStatus(balance, caloriesOut) ==
    IF caloriesOut <= 0 \/ 10 * Abs(balance) <= caloriesOut THEN "balanced"
    ELSE IF 4 * Abs(balance) <= caloriesOut THEN "slight_imbalance"
    ELSE "significant_imbalance"

DailyBalance(caloriesIn, activityData) ==
    LET caloriesOut == OrZero(activityData.calories_burned) + OrZero(activityData.bmr_estimate)
        balance == caloriesIn - caloriesOut
    IN  [caloriesIn |-> MathRound(caloriesIn),
         caloriesOut |-> MathRound(caloriesOut),
         balance |-> MathRound(balance),
         balanceStatus |-> BalanceStatus(balance, caloriesOut)]

GetDailyBalance(u, date) ==
    LET startDate == NewDate(date)
        endDate == NextDay(startDate)
        caloriesIn == SumCalories(MealsOfDay(meals, u, startDate, endDate))
        found == LatestActivity(summaries, u, startDate)
    IN  /\ UNCHANGED <<devices, summaries, meals, now, nextId, storage, inflight>>
        /\ IF startDate = InvalidDate
           THEN last' = Other("getDailyBalance", u, date, FALSE, <<>>)
           ELSE IF found = {}
           THEN last' = Other("getDailyBalance", u, date, TRUE, <<>>)
           ELSE \E activityData \in found :
                   last' = Other("getDailyBalance", u, date, TRUE,
                                 <<DailyBalance(caloriesIn, activityData)>>)

(***************************************************************************)
(* The client's DeviceAPIService.getDailyBalance, the part that computes   *)
(* the balance locally when the server request fails: caloriesIn is what   *)
(* the nutrition API reports and caloriesOut the day's caloriesBurned.     *)
(***************************************************************************)
LocalDailyBalance(caloriesIn, caloriesBurned) ==
    LET caloriesOut == OrZero(caloriesBurned)
        balance == OrZero(caloriesIn) - caloriesOut
    IN  IF caloriesOut = 0 THEN <<>>
        ELSE <<[caloriesIn |-> OrZero(caloriesIn),
                caloriesOut |-> caloriesOut,
                balance |-> balance,
                balanceStatus |-> BalanceStatus(balance, caloriesOut)]>>

GetLocalBalance(caloriesIn, caloriesBurned) ==
    /\ last' = Other("localDailyBalance", "", <<caloriesIn, caloriesBurned>>, TRUE,
                     LocalDailyBalance(caloriesIn, caloriesBurned))
    /\ UNCHANGED <<devices, summaries, meals, now, nextId, storage, inflight>>

(***************************************************************************)
(* router.post("/sync-all"): one syncDeviceData call, in its own try/catch, *)
(* for each of the owner's devices whose status is CONNECTED, newest       *)
(* first.  sampleOf[d] is the sample generated for device d, failOf[d] the *)
(* persistence call that throws in its sync, listFails: getUserDevices     *)
(* throws.                                                                 *)
(***************************************************************************)
\* the sample of one device; k stands for the Math.random() draws
SyncAllSample(k) ==
    [steps |-> 5000 + k,
     caloriesBurned |-> (200 + k) * CalScale,
     activeMinutes |-> 30 + k,
     bmr |-> SampleBmr * CalScale,
     heartRate |-> Undef,
     weight |-> Undef,
     bodyFat |-> Undef,
     sleepHours |-> Undef,
     distance |-> Undef,
     date |-> NoDate]

\* every device of the owner, whatever its status
AllDevicesOf(devs, u) == {x \in devs : x.user_id = u}

\* devices.filter(d => d.connection_status === "CONNECTED")
ConnectedDevices(devs, u) ==
    {x \in devs : x.user_id = u /\ x.connection_status = "CONNECTED"}

RECURSIVE SyncAllLoop(_, _, _, _, _, _, _, _, _)
SyncAllLoop(devs, sums, u, ids, sampleOf, failOf, successCount, failedCount, nowv) ==
    IF ids = {}
    THEN [devices |-> devs, summaries |-> sums,
          successCount |-> successCount, failedCount |-> failedCount]
    ELSE LET d == CHOOSE x \in ids : \A y \in ids : y <= x
             r == SyncDeviceDataEff(devs, sums, u, d, sampleOf[d], failOf[d], nowv)
         IN  SyncAllLoop(r.devices, r.summaries, u, ids \ {d}, sampleOf, failOf,
                         successCount + (IF r.ok THEN 1 ELSE 0),
                         failedCount + (IF r.ok THEN 0 ELSE 1), nowv)

SyncAll(u, sampleOf, failOf, listFails) ==
    /\ MayCall
    /\ LET connectedDevices == ConnectedDevices(devices, u)
           r == SyncAllLoop(devices, summaries, u,
                            {x.connected_device_id : x \in connectedDevices},
                            sampleOf, failOf, 0, 0, now)
       IN  IF listFails
           THEN /\ last' = Call("syncAll", u, 0, <<>>, FALSE, <<>>)
                /\ UNCHANGED <<devices, summaries, meals, now, nextId, storage, inflight>>
           ELSE /\ devices' = r.devices
                /\ summaries' = r.summaries
                /\ last' = Call("syncAll", u, 0, <<>>, TRUE,
                                <<[total_devices |-> Cardinality(connectedDevices),
                                   successful_syncs |-> r.successCount,
                                   failed_syncs |-> r.failedCount]>>)
                /\ UNCHANGED <<meals, now, nextId, storage, inflight>>

(***************************************************************************)
(* JavaScript numbers in calculateTrend: IEEE 754 binary64, round to       *)
(* nearest, ties to even.  A natural number is the sequence of its limbs   *)
(* (digits in base 2^LimbBits), least significant first, without high      *)
(* zeros.  A double is [sign, m, e], the number sign * m * 2^e with fewer   *)
(* than MantissaBits + 1 bits in m, or m = 2^MantissaBits; the values of   *)
(* the model stay far from the subnormal and the infinite range.           *)
(***************************************************************************)
MantissaBits == 53

LimbBits == 12

\* fraction bits a division computes before it rounds: a multiple of LimbBits, and
\* more than MantissaBits + 2 bits are left for every divisor below 2^LimbBits
DivLimbs == 6

Base == 2 ^ LimbBits

RECURSIVE LimbsOf(_)
LimbsOf(n) == IF n = 0 THEN <<>> ELSE <<n % Base>> \o LimbsOf(n \div Base)

RECURSIVE Trim(_)
Trim(a) == IF a # <<>> /\ a[Len(a)] = 0 THEN Trim(SubSeq(a, 1, Len(a) - 1)) ELSE a

Limb(a, i) == IF 1 <= i /\ i <= Len(a) THEN a[i] ELSE 0

\* the number of bits of a limb, and of a number
LimbLen(d) == CHOOSE k \in 0..LimbBits : (k = 0 \/ (2 ^ (k - 1)) <= d) /\ d < (2 ^ k)

BitLen(a) == IF a = <<>> THEN 0 ELSE ((Len(a) - 1) * LimbBits) + LimbLen(a[Len(a)])

\* a * 2^k and floor(a / 2^k)
Shl(a, k) ==
    LET q == k \div LimbBits
        o == k % LimbBits
    IN  Trim([j \in 1..(Len(a) + q + 1) |->
                 ((Limb(a, j - q) * (2 ^ o)) % Base)
                 + (Limb(a, j - q - 1) \div (2 ^ (LimbBits - o)))])

Shr(a, k) ==
    LET q == k \div LimbBits
        o == k % LimbBits
    IN  Trim([j \in 1..Len(a) |->
                 (Limb(a, j + q) \div (2 ^ o))
                 + ((Limb(a, j + q + 1) % (2 ^ o)) * (2 ^ (LimbBits - o)))])

\* bit p of a (bit 1 is the lowest), and whether a bit below p is set
BitAt(a, p) ==
    (Limb(a, ((p - 1) \div LimbBits) + 1) \div (2 ^ ((p - 1) % LimbBits))) % 2

AnyBelow(a, p) ==
    \/ \E i \in 1..((p - 1) \div LimbBits) : Limb(a, i) # 0
    \/ (Limb(a, ((p - 1) \div LimbBits) + 1) % (2 ^ ((p - 1) % LimbBits))) # 0

RECURSIVE AddFrom(_, _, _, _)
AddFrom(a, b, i, carry) ==
    IF i > Len(a) /\ i > Len(b) THEN (IF carry = 0 THEN <<>> ELSE <<carry>>)
    ELSE <<(Limb(a, i) + Limb(b, i) + carry) % Base>>
         \o AddFrom(a, b, i + 1, (Limb(a, i) + Limb(b, i) + carry) \div Base)

BAdd(a, b) == AddFrom(a, b, 1, 0)

\* a - b for a >= b
RECURSIVE SubFrom(_, _, _, _)
SubFrom(a, b, i, borrow) ==
    IF i > Len(a) THEN <<>>
    ELSE <<(Base + a[i] - Limb(b, i) - borrow) % Base>>
         \o SubFrom(a, b, i + 1, IF a[i] - Limb(b, i) - borrow < 0 THEN 1 ELSE 0)

BSub(a, b) == Trim(SubFrom(a, b, 1, 0))

RECURSIVE LessFrom(_, _, _)
LessFrom(a, b, i) ==
    IF i = 0 THEN FALSE
    ELSE IF a[i] # b[i] THEN a[i] < b[i]
    ELSE LessFrom(a, b, i - 1)

BLess(a, b) == IF Len(a) # Len(b) THEN Len(a) < Len(b) ELSE LessFrom(a, b, Len(a))

\* a * d for one limb d
RECURSIVE ScaleFrom(_, _, _, _)
ScaleFrom(a, d, i, carry) ==
    IF i > Len(a) THEN (IF carry = 0 THEN <<>> ELSE <<carry>>)
    ELSE <<((a[i] * d) + carry) % Base>>
         \o ScaleFrom(a, d, i + 1, ((a[i] * d) + carry) \div Base)

RECURSIVE MulFrom(_, _, _)
MulFrom(a, b, i) ==
    IF i > Len(b) THEN <<>>
    ELSE BAdd([j \in 1..(i - 1) |-> 0] \o ScaleFrom(a, b[i], 1, 0), MulFrom(a, b, i + 1))

BMul(a, b) == Trim(MulFrom(a, b, 1))

\* the quotient of a by a positive n < Base, limb by limb from the top; the lowest
\* limb of the result is followed downwards by nothing: the remainder is its first item
RECURSIVE DivFrom(_, _, _, _)
DivFrom(a, n, i, r) ==
    IF i = 0 THEN <<r>>
    ELSE Append(DivFrom(a, n, i - 1, ((r * Base) + a[i]) % n), ((r * Base) + a[i]) \div n)

Double(sign, m, e) == [sign |-> sign, m |-> m, e |-> e]

\* the double nearest to sign * n * 2^e when sticky is FALSE, and to a number just
\* above it (by less than 2^e) when sticky is TRUE; a tie goes to the even mantissa
RoundNearestEven(sign, n, e, sticky) ==
    IF BitLen(n) <= MantissaBits THEN Double(sign, n, e)
    ELSE LET drop == BitLen(n) - MantissaBits
             kept == Shr(n, drop)
             up == /\ BitAt(n, drop) = 1
                   /\ (sticky \/ AnyBelow(n, drop) \/ BitAt(kept, 1) = 1)
         IN  Double(sign, IF up THEN BAdd(kept, <<1>>) ELSE kept, e + drop)

\* s / n for an integer s and a positive integer n
FDiv(s, n) ==
    LET a == IF s < 0 THEN 0 - s ELSE s
        dividend == IF a = 0 THEN <<>> ELSE [j \in 1..DivLimbs |-> 0] \o LimbsOf(a)
        q == DivFrom(dividend, n, Len(dividend), 0)
    IN  RoundNearestEven(IF s < 0 THEN 0 - 1 ELSE 1, Trim(Tail(q)),
                         0 - (DivLimbs * LimbBits), Head(q) # 0)

FNeg(x) == [x EXCEPT !.sign = 0 - x.sign]

FAdd(x, y) ==
    LET e == IF x.e < y.e THEN x.e ELSE y.e
        X == Shl(x.m, x.e - e)
        Y == Shl(y.m, y.e - e)
    IN  IF x.m = <<>> THEN y
        ELSE IF y.m = <<>> THEN x
        ELSE IF x.sign = y.sign THEN RoundNearestEven(x.sign, BAdd(X, Y), e, FALSE)
        ELSE IF BLess(X, Y) THEN RoundNearestEven(y.sign, BSub(Y, X), e, FALSE)
        ELSE RoundNearestEven(x.sign, BSub(X, Y), e, FALSE)

FSub(x, y) == FAdd(x, FNeg(y))

FMul(x, y) == RoundNearestEven(x.sign * y.sign, BMul(x.m, y.m), x.e + y.e, FALSE)

\* x < y
FLess(x, y) ==
    LET sx == IF x.m = <<>> THEN 0 ELSE x.sign
        sy == IF y.m = <<>> THEN 0 ELSE y.sign
        e == IF x.e < y.e THEN x.e ELSE y.e
        X == Shl(x.m, x.e - e)
        Y == Shl(y.m, y.e - e)
    IN  IF sx # sy THEN sx < sy
        ELSE IF sx = 0 THEN FALSE
        ELSE IF sx = 1 THEN BLess(X, Y)
        ELSE BLess(Y, X)

\* the literal 0.1
Tenth == FDiv(1, 10)

RECURSIVE SumSeq(_)
SumSeq(values) == IF values = <<>> THEN 0 ELSE Head(values) + SumSeq(Tail(values))

(***************************************************************************)
(* DeviceService.calculateTrend.                                           *)
(***************************************************************************)
calculateTrend(values) ==
    IF Len(values) < 2 THEN "stable"
    ELSE LET firstHalf == SubSeq(values, 1, Len(values) \div 2)
             secondHalf == SubSeq(values, (Len(values) \div 2) + 1, Len(values))
             firstAvg == FDiv(SumSeq(firstHalf), Len(firstHalf))
             secondAvg == FDiv(SumSeq(secondHalf), Len(secondHalf))
             difference == FSub(secondAvg, firstAvg)
             threshold == FMul(firstAvg, Tenth)
         IN  IF FLess(threshold, difference) THEN "increasing"
             ELSE IF FLess(difference, FNeg(threshold)) THEN "decreasing"
             ELSE "stable"

\* calculateTrend applied to the series the caller holds
CalculateTrend ==
    /\ last.op = "series"
    /\ last' = Other("calculateTrend", "", last.arg, TRUE, <<calculateTrend(last.arg)>>)
    /\ UNCHANGED <<devices, summaries, meals, now, nextId, storage, inflight>>

(***************************************************************************)
(* DeviceService.getDeviceAnalytics.  The date column is compared as a     *)
(* calendar day: the window is the days today - days .. today.             *)
(***************************************************************************)
\* a window that forgets the device
AnalyticsOfOwner(sums, u, d, days, nowv) ==
    {r \in sums : /\ r.user_id = u
                  /\ DateColumn(nowv - (days * TicksPerDay)) <= r.date
                  /\ r.date <= DateColumn(nowv)}

\* findMany({ where: { user_id, device_id, date: { gte: startDate, lte: endDate } } })
AnalyticsWindow(sums, u, d, days, nowv) ==
    {r \in sums : /\ r.user_id = u
                  /\ r.device_id = d
                  /\ DateColumn(nowv - (days * TicksPerDay)) <= r.date
                  /\ r.date <= DateColumn(nowv)}

\* orderBy: { date: "asc" }
RECURSIVE OrderByDate(_)
OrderByDate(rows) ==
    IF rows = {} THEN <<>>
    ELSE LET first == CHOOSE r \in rows : \A o \in rows : r.date <= o.date
         IN  <<first>> \o OrderByDate(rows \ {first})

\* analytics.length > 0 ? Math.round(total / analytics.length) : 0, for a total counted
\* in 1/scale units
RoundedAverage(total, count, scale) ==
    IF count > 0 THEN ((2 * total) + (scale * count)) \div (2 * scale * count) ELSE 0

\* d.calories_burned || 0 as a number of kcal; the analytics inputs carry whole kcal
Kcal(x) == OrZero(x) \div CalScale

DeviceAnalytics(sums, u, d, days, nowv) ==
    LET analytics == OrderByDate(AnalyticsWindow(sums, u, d, days, nowv))
        n == Len(analytics)
        totalSteps == SumSeq([i \in 1..n |-> OrZero(analytics[i].steps)])
        totalCalories == SumSeq([i \in 1..n |-> OrZero(analytics[i].calories_burned)])
        totalMinutes == SumSeq([i \in 1..n |-> OrZero(analytics[i].active_minutes)])
    IN  [device_id |-> d,
         period_days |-> days,
         total_records |-> n,
         averages |-> [steps |-> RoundedAverage(totalSteps, n, 1),
                       calories_burned |-> RoundedAverage(totalCalories, n, CalScale),
                       active_minutes |-> RoundedAverage(totalMinutes, n, 1)],
         trends |-> [steps_trend |->
                        calculateTrend([i \in 1..n |-> OrZero(analytics[i].steps)]),
                     calories_trend |->
                        calculateTrend([i \in 1..n |-> Kcal(analytics[i].calories_burned)])],
         daily_data |-> analytics]

GetDeviceAnalytics(u, d, days, dbFail) ==
    /\ last' = [Other("getDeviceAnalytics", u, days, ~dbFail,
                      IF dbFail THEN <<>>
                      ELSE <<DeviceAnalytics(summaries, u, d, days, now)>>)
                EXCEPT !.dev = d]
    /\ UNCHANGED <<devices, summaries, meals, now, nextId, storage, inflight>>

(***************************************************************************)
(* The client agent, client/src/services/healthKit.ts.  readings holds     *)
(* what the platform answers to each of the five reads of a day: a value,  *)
(* Undef (no value in the answer) or Rejected.  An AsyncStorage item is    *)
(* the text JSON.stringify wrote; getItem answers <<>> (null) or <<text>>. *)
(***************************************************************************)
\* JSON.stringify
Stringify(value) == [json |-> value]

\* JSON.parse
Parse(text) == text.json

\* AsyncStorage.getItem(key)
GetItem(store, key) == IF key \in DOMAIN store THEN <<store[key]>> ELSE <<>>

\* AsyncStorage.setItem(key, text)
SetItem(store, key, text) ==
    [k \in DOMAIN store \cup {key} |-> IF k = key THEN text ELSE store[k]]

\* `health_data_${date.toDateString()}`
HealthKey(date) == <<"health_data_", date \div TicksPerDay>>

\* getSteps, getActiveCalories, getHeartRate, getDistance: reject on a callback error
FetchMetric(reading) == IF reading = Rejected THEN Rejected ELSE OrZero(reading)

\* getWeight: resolve(0) on a callback error
getWeight(reading) == IF reading = Rejected THEN 0 ELSE OrZero(reading)

\* cacheHealthData: data.date is a string, so data.date.toDateString() throws a
\* TypeError before setItem; the catch logs it
cacheHealthData(store, data) == store

\* getCachedHealthData; readFails: getItem throws
getCachedHealthData(store, date, readFails) ==
    LET cached == GetItem(store, HealthKey(date))
    IN  IF readFails \/ cached = <<>> THEN <<>> ELSE <<Parse(cached[1])>>

getDefaultHealthData(date) ==
    [steps |-> 0, caloriesBurned |-> 0, heartRate |-> 0, distance |-> 0,
     activeMinutes |-> 0, date |-> ToISODate(date), weight |-> Undef]

\* `weight: weight || undefined` reads a name that no scope declares (the
\* Promise.all result is destructured into four names): a ReferenceError
WeightUndeclared == TRUE

\* getDailyHealthData for a valid date: the record returned and the storage left
getDailyHealthData(store, date, readings, readFails) ==
    LET steps == FetchMetric(readings.steps)
        calories == FetchMetric(readings.calories)
        heartRate == FetchMetric(readings.heartRate)
        distance == FetchMetric(readings.distance)
        fifth == getWeight(readings.weight)
        healthData == [steps |-> OrZero(steps),
                       caloriesBurned |-> OrZero(calories),
                       heartRate |-> OrZero(heartRate),
                       distance |-> OrZero(distance),
                       activeMinutes |-> OrZero(steps) \div 100,
                       date |-> ToISODate(date),
                       weight |-> Undef]
        cached == getCachedHealthData(store, date, readFails)
    IN  IF Rejected \in {steps, calories, heartRate, distance} \/ WeightUndeclared
        THEN [data |-> IF cached # <<>> THEN cached[1] ELSE getDefaultHealthData(date),
              storage |-> store]
        ELSE [data |-> healthData, storage |-> cacheHealthData(store, healthData)]

\* date: a Date; startOfDay.toISOString() throws a RangeError, outside the try,
\* when it is an Invalid Date
GetDailyHealthData(date, readings, readFails) ==
    LET r == getDailyHealthData(storage, date, readings, readFails)
        arg == [date |-> date, readings |-> readings]
    IN  IF date = InvalidDate
        THEN /\ last' = Other("getDailyHealthData", "", arg, FALSE, <<>>)
             /\ UNCHANGED <<devices, summaries, meals, now, nextId, storage, inflight>>
        ELSE /\ last' = Other("getDailyHealthData", "", arg, TRUE, <<r.data>>)
             /\ storage' = r.storage
             /\ UNCHANGED <<devices, summaries, meals, now, nextId, inflight>>

\* getHealthDataForDate: <<>> is null
getHealthDataForDate(store, platformOS, date, readings, readFails) ==
    LET targetDate == NewDate(date)
        healthData == getDailyHealthData(store, targetDate, readings, readFails)
    IN  IF platformOS # "ios" \/ targetDate = InvalidDate
        THEN [data |-> <<>>, storage |-> store]
        ELSE [data |-> <<[steps |-> healthData.data.steps,
                          caloriesBurned |-> healthData.data.caloriesBurned,
                          heartRate |-> healthData.data.heartRate,
                          distance |-> healthData.data.distance,
                          activeMinutes |-> healthData.data.activeMinutes,
                          date |-> date,
                          weight |-> healthData.data.weight]>>,
              storage |-> healthData.storage]

GetHealthDataForDate(platformOS, date, readings, readFails) ==
    LET r == getHealthDataForDate(storage, platformOS, date, readings, readFails)
    IN  /\ last' = Other("getHealthDataForDate", "",
                         [date |-> date, readings |-> readings], TRUE, r.data)
        /\ storage' = r.storage
        /\ UNCHANGED <<devices, summaries, meals, now, nextId, inflight>>

\* the body of the POST /devices/${deviceId}/sync request
SyncActivityData(healthData) ==
    [steps |-> healthData.steps,
     caloriesBurned |-> healthData.caloriesBurned,
     activeMinutes |-> healthData.activeMinutes,
     bmr |-> DefaultBmr * CalScale,
     heartRate |-> healthData.heartRate,
     weight |-> healthData.weight,
     bodyFat |-> Undef,
     sleepHours |-> Undef,
     distance |-> healthData.distance,
     date |-> NoDate]

\* a client that sends the request again
SyncRequestsTwice(healthData, deviceId) ==
    IF healthData = <<>> THEN <<>>
    ELSE <<[deviceId |-> deviceId, activityData |-> SyncActivityData(healthData[1])],
           [deviceId |-> deviceId, activityData |-> SyncActivityData(healthData[1])]>>

\* the requests of one syncWithServer call
SyncRequests(healthData, deviceId) ==
    IF healthData = <<>> THEN <<>>
    ELSE <<[deviceId |-> deviceId, activityData |-> SyncActivityData(healthData[1])]>>

\* the server's answers to the requests, in order: router.post("/:deviceId/sync")
\* runs syncDeviceData and answers success: true, or status 500 when it throws
RECURSIVE ServeSync(_, _, _, _, _, _, _)
ServeSync(devs, sums, u, requests, fail, nowv, responses) ==
    IF requests = <<>>
    THEN [devices |-> devs, summaries |-> sums, responses |-> responses]
    ELSE LET r == SyncDeviceDataEff(devs, sums, u, requests[1].deviceId,
                                    requests[1].activityData, fail, nowv)
         IN  ServeSync(r.devices, r.summaries, u, Tail(requests), fail, nowv,
                       Append(responses, r.ok))

\* HealthKitService.syncWithServer(userId, deviceId).  net: the request does not
\* reach the server ("unreachable"), is answered ("served"), or is carried out with
\* the answer lost ("lost"); fail: the persistence call that throws in the server
SyncWithServer(u, d, platformOS, readings, readFails, net, fail) ==
    /\ MayCall
    /\ LET h == getHealthDataForDate(storage, platformOS, ToISODate(now), readings,
                                     readFails)
           requests == SyncRequests(h.data, d)
           served == IF net = "unreachable"
                     THEN [devices |-> devices, summaries |-> summaries,
                           responses |-> <<>>]
                     ELSE ServeSync(devices, summaries, u, requests, fail, now, <<>>)
           responses == IF net = "served" THEN served.responses ELSE <<>>
       IN  /\ devices' = served.devices
           /\ summaries' = served.summaries
           /\ storage' = h.storage
           /\ last' = Call("syncWithServer", u, d,
                           [requests |-> requests, responses |-> responses], TRUE,
                           <<responses # <<>> /\ responses[Len(responses)]>>)
           /\ UNCHANGED <<meals, now, nextId, inflight>>

(***************************************************************************)
(* The client's device list, client/src/services/deviceAPI.ts.  net is     *)
(* what becomes of the GET /devices request: "served" (answered with       *)
(* success: true and the owner's devices), "refused" (answered without     *)
(* success) or "unreachable" (the request throws).                         *)
(***************************************************************************)
DevicesKey == <<"connected_devices", 0>>

\* prisma.connectedDevice.findMany({ where: { user_id }, orderBy: { created_at: "desc" } })
RECURSIVE getUserDevices(_, _)
getUserDevices(devs, u) ==
    LET mine == {x \in devs : x.user_id = u}
        newest == CHOOSE x \in mine :
                     \A y \in mine : y.connected_device_id <= x.connected_device_id
    IN  IF mine = {} THEN <<>> ELSE <<newest>> \o getUserDevices(devs \ {newest}, u)

\* response.data.data.map((device) => ({ id: device.connected_device_id, ... }))
ServerDevice(device) ==
    [id |-> ToString(device.connected_device_id),
     name |-> device.device_name,
     type |-> device.device_type,
     status |-> device.connection_status,
     lastSync |-> device.last_sync_time,
     isPrimary |-> device.is_primary_device]

\* a fallback that finds nothing
LocalDevicesNone(store, readFails) == <<>>

\* the fallback to the stored list; readFails: getItem or JSON.parse throws
LocalDevices(store, readFails) ==
    LET localDevices == GetItem(store, DevicesKey)
    IN  IF readFails \/ localDevices = <<>> THEN <<>> ELSE Parse(localDevices[1])

getConnectedDevices(devs, store, u, net, readFails) ==
    LET data == getUserDevices(devs, u)
    IN  IF net = "served"
        THEN [i \in 1..Len(data) |-> ServerDevice(data[i])]
        ELSE LocalDevices(store, readFails)

GetConnectedDevices(u, net, readFails) ==
    /\ last' = Other("getConnectedDevices", u, [net |-> net, readFails |-> readFails],
                     TRUE, <<getConnectedDevices(devices, storage, u, net, readFails)>>)
    /\ UNCHANGED <<devices, summaries, meals, now, nextId, storage, inflight>>

\* storeLocalDevice; writeFails: setItem throws, the catch logs it
StoreLocalDevice(u, device, net, readFails, writeFails) ==
    /\ MayCall
    /\ LET found == getConnectedDevices(devices, storage, u, net, readFails)
           updatedDevices == Append(SelectSeq(found, LAMBDA d : d.id # device.id), device)
       IN  /\ storage' = IF writeFails THEN storage
                         ELSE SetItem(storage, DevicesKey, Stringify(updatedDevices))
           /\ last' = Call("storeLocalDevice", u, 0, device, TRUE, <<>>)
           /\ UNCHANGED <<devices, summaries, meals, now, nextId, inflight>>

\* removeLocalDevice
RemoveLocalDevice(u, deviceId, net, readFails, writeFails) ==
    /\ MayCall
    /\ LET found == getConnectedDevices(devices, storage, u, net, readFails)
           updatedDevices == SelectSeq(found, LAMBDA d : d.id # deviceId)
       IN  /\ storage' = IF writeFails THEN storage
                         ELSE SetItem(storage, DevicesKey, Stringify(updatedDevices))
           /\ last' = Call("removeLocalDevice", u, 0, deviceId, TRUE, <<>>)
           /\ UNCHANGED <<devices, summaries, meals, now, nextId, inflight>>

(***************************************************************************)
(* DeviceService.syncDeviceData step by step: a call runs up to each of    *)
(* its three awaits (findFirst, upsert, update), and the calls in inflight *)
(* take their steps in any order.  The upsert is a lookup of the compound  *)
(* key followed by an update or a create; a create that finds the key      *)
(* taken in the meantime fails on the unique index.                        *)
(***************************************************************************)
Finished(call) == call.pc \in {"done", "failed"}

SyncStart(u, d, activityData) ==
    /\ Len(inflight) < MaxInflight
    /\ last.n + Cardinality({i \in 1..Len(inflight) : ~Finished(inflight[i])}) < MaxCalls
    /\ inflight' = Append(inflight,
                          [user |-> u, dev |-> d, activityData |-> activityData,
                           pc |-> "findFirst", name |-> "", date |-> 0, at |-> 0,
                           hit |-> FALSE])
    /\ UNCHANGED <<devices, summaries, meals, now, nextId, last, storage>>

\* findFirst resolves: throw "Device not found", or build the upsert's arguments
SyncFindFirst(c) ==
    /\ inflight[c].pc = "findFirst"
    /\ LET call == inflight[c]
           device == FindDevice(devices, call.user, call.dev)
       IN  IF device = {}
           THEN /\ inflight' = [inflight EXCEPT ![c].pc = "failed"]
                /\ last' = Call("syncDeviceData", call.user, call.dev, <<>>, FALSE, <<>>)
           ELSE /\ inflight' = [inflight EXCEPT
                                   ![c].pc = "upsert",
                                   ![c].name = (CHOOSE x \in device : TRUE).device_name,
                                   ![c].date = SyncTargetDate(call.activityData, now),
                                   ![c].at = now]
                /\ UNCHANGED last
    /\ UNCHANGED <<devices, summaries, meals, now, nextId, storage>>

\* the upsert looks the compound key up
SyncUpsertLookup(c) ==
    /\ inflight[c].pc = "upsert"
    /\ LET call == inflight[c]
       IN  inflight' = [inflight EXCEPT
                           ![c].pc = "write",
                           ![c].hit = SummaryAt(summaries, call.user, call.dev,
                                                call.date) # {}]
    /\ UNCHANGED <<devices, summaries, meals, now, nextId, last, storage>>

\* the upsert writes: the update of the row found, or the create
SyncUpsertWrite(c) ==
    /\ inflight[c].pc = "write"
    /\ LET call == inflight[c]
           taken == SummaryAt(summaries, call.user, call.dev, call.date) # {}
       IN  IF ~call.hit /\ taken
           THEN /\ inflight' = [inflight EXCEPT ![c].pc = "failed"]
                /\ last' = Call("syncDeviceData", call.user, call.dev, <<>>, FALSE, <<>>)
                /\ UNCHANGED summaries
           ELSE /\ summaries' = UpsertSummary(summaries, call.user, call.dev, call.date,
                                    SyncUpdateData(call.activityData, call.at),
                                    SyncCreateData(call.user, call.dev, call.date, call.name,
                                                   call.activityData, call.at))
                /\ inflight' = [inflight EXCEPT ![c].pc = "update"]
                /\ UNCHANGED last
    /\ UNCHANGED <<devices, meals, now, nextId, storage>>

\* the device update, and the return of the row the upsert gave
SyncTouch(c) ==
    /\ inflight[c].pc = "update"
    /\ LET call == inflight[c]
       IN  /\ devices' = UpdateDevice(devices, call.dev, SyncTouchDevice(now))
           /\ inflight' = [inflight EXCEPT ![c].pc = "done"]
           /\ last' = Call("syncDeviceData", call.user, call.dev, <<>>, TRUE, <<>>)
    /\ UNCHANGED <<summaries, meals, now, nextId, storage>>

(***************************************************************************)
(* DeviceService.connectDevice step by step: the call runs up to its       *)
(* findFirst, then up to its update or create, then through the backfill.  *)
(* existing is <<>> or <<id>>, the row findFirst answered.                 *)
(***************************************************************************)
ConnectStart(u, deviceType, deviceName, accessToken, refreshToken) ==
    /\ Len(inflight) < MaxConnects
    /\ inflight' = Append(inflight,
                          [user |-> u, deviceType |-> deviceType, deviceName |-> deviceName,
                           accessToken |-> accessToken, refreshToken |-> refreshToken,
                           pc |-> IF deviceType \in validDeviceTypes THEN "findFirst"
                                  ELSE "failed",
                           existing |-> <<>>, dev |-> 0])
    /\ UNCHANGED <<devices, summaries, meals, now, nextId, last, storage>>

\* findFirst({ where: { user_id, device_type } }) resolves
ConnectFindFirst(c) ==
    /\ inflight[c].pc = "findFirst"
    /\ LET call == inflight[c]
           found == ExistingDevice(devices, call.user, call.deviceType)
       IN  \/ /\ found = {}
              /\ inflight' = [inflight EXCEPT ![c].pc = "write"]
           \/ \E e \in found :
                 inflight' = [inflight EXCEPT ![c].pc = "write",
                                              ![c].existing = <<e.connected_device_id>>]
    /\ UNCHANGED <<devices, summaries, meals, now, nextId, last, storage>>

\* a create that no unique key guards
ConnectWriteNoKey(c) ==
    /\ inflight[c].pc = "write"
    /\ LET call == inflight[c]
       IN  IF call.existing # <<>>
           THEN /\ devices' = UpdateDevice(devices, call.existing[1],
                                 ConnectUpdateData(call.deviceName, call.accessToken,
                                                   call.refreshToken, now))
                /\ inflight' = [inflight EXCEPT ![c].pc = "backfill",
                                                ![c].dev = call.existing[1]]
                /\ UNCHANGED <<nextId, last>>
           ELSE /\ nextId <= MaxDevices
                /\ devices' = devices \cup
                                 {ConnectCreateData(nextId, call.user, call.deviceType,
                                                    call.deviceName, call.accessToken,
                                                    call.refreshToken, now)}
                /\ nextId' = nextId + 1
                /\ inflight' = [inflight EXCEPT ![c].pc = "backfill", ![c].dev = nextId]
                /\ UNCHANGED last
    /\ UNCHANGED <<summaries, meals, now, storage>>

\* the update of the row found, or the create of a new row.  connectedDevice has
\* the compound unique key user_id_device_type (HealthKitService.syncWithDevice
\* upserts on it): a create for an owner and deviceType that have a row by then
\* throws, and the catch rethrows "Failed to connect device"
ConnectWrite(c) ==
    /\ inflight[c].pc = "write"
    /\ LET call == inflight[c]
       IN  IF call.existing # <<>>
           THEN /\ devices' = UpdateDevice(devices, call.existing[1],
                                 ConnectUpdateData(call.deviceName, call.accessToken,
                                                   call.refreshToken, now))
                /\ inflight' = [inflight EXCEPT ![c].pc = "backfill",
                                                ![c].dev = call.existing[1]]
                /\ UNCHANGED <<nextId, last>>
           ELSE IF ExistingDevice(devices, call.user, call.deviceType) # {}
           THEN /\ inflight' = [inflight EXCEPT ![c].pc = "failed"]
                /\ last' = [Call("connectDevice", call.user, 0,
                                 [deviceType |-> call.deviceType,
                                  deviceName |-> call.deviceName,
                                  accessToken |-> call.accessToken,
                                  refreshToken |-> call.refreshToken], FALSE, <<>>)
                              EXCEPT !.n = last.n]
                /\ UNCHANGED <<devices, nextId>>
           ELSE /\ nextId <= MaxDevices
                /\ devices' = devices \cup
                                 {ConnectCreateData(nextId, call.user, call.deviceType,
                                                    call.deviceName, call.accessToken,
                                                    call.refreshToken, now)}
                /\ nextId' = nextId + 1
                /\ inflight' = [inflight EXCEPT ![c].pc = "backfill", ![c].dev = nextId]
                /\ UNCHANGED last
    /\ UNCHANGED <<summaries, meals, now, storage>>

\* performInitialSync, and the return
ConnectBackfill(c, samples, fails) ==
    /\ inflight[c].pc = "backfill"
    /\ LET call == inflight[c]
           after == PerformInitialSync(devices, summaries, call.user, call.dev,
                                       samples, fails, 1, now)
       IN  /\ devices' = after.devices
           /\ summaries' = after.summaries
           /\ inflight' = [inflight EXCEPT ![c].pc = "done"]
           /\ last' = [Call("connectDevice", call.user, call.dev,
                            [deviceType |-> call.deviceType, deviceName |-> call.deviceName,
                             accessToken |-> call.accessToken,
                             refreshToken |-> call.refreshToken], TRUE, <<>>)
                         EXCEPT !.n = last.n]
    /\ UNCHANGED <<meals, now, nextId, storage>>

\* the clock advances
Tick ==
    /\ now < MaxNow
    /\ now' = now + 1
    /\ UNCHANGED <<devices, summaries, meals, nextId, last, storage, inflight>>

Init ==
    /\ devices = {}
    /\ summaries = {}
    /\ meals = {}
    /\ now = 0
    /\ nextId = 1
    /\ storage = <<>>
    /\ inflight = <<>>
    /\ last = [op |-> "init", user |-> "", dev |-> 0, arg |-> <<>>, ok |-> TRUE,
               ret |-> <<>>, again |-> FALSE, n |-> 0]

(***************************************************************************)
(* Inputs.                                                                 *)
(***************************************************************************)
Users == {"u1", "u2"}

DeviceIds == 1..MaxDevices

FailPoints == {"none", "upsert", "update"}

\* an ActivityData value (HealthKitData reads the fields it declares)
Payload(steps, cal, act, bmr, hr, w, bf, sl, dist, date) ==
    [steps |-> steps, caloriesBurned |-> cal, activeMinutes |-> act, bmr |-> bmr,
     heartRate |-> hr, weight |-> w, bodyFat |-> bf, sleepHours |-> sl,
     distance |-> dist, date |-> date]

EmptyPayload ==
    Payload(Undef, Undef, Undef, Undef, Undef, Undef, Undef, Undef, Undef, NoDate)

FullPayload(k, date) ==
    Payload(100 * k, 10 * k, k, 20 * k, 60 + k, 70 + k, 20 + k, 6 + k, k, date)

\* steps and heart rate only: what a wearable without a scale reports
PartialPayload(k, date) ==
    Payload(100 * k, Undef, Undef, Undef, 60 + k, Undef, Undef, Undef, Undef, date)

Days == 0..(MaxNow \div TicksPerDay)

\* what a client with a faulty counter sends: nothing in the route or the service
\* checks the sign of a value
NegativePayload(date) ==
    Payload(0 - 5, 0 - 8, 0 - 1, Undef, Undef, Undef, Undef, Undef, Undef, date)

SyncPayloads ==
    {EmptyPayload, FullPayload(1, NoDate), PartialPayload(2, DayString(1))}

BulkArrays ==
    {<<>>,
     <<FullPayload(2, DayString(0))>>,
     <<FullPayload(2, DayString(0)), PartialPayload(3, [day |-> 0, tod |-> 1])>>,
     <<PartialPayload(3, DayString(1)), FullPayload(1, BadDate), FullPayload(2, DayString(0))>>}

\* which upserts of a bulk call throw, and whether the device update throws
BulkFails == {[items |-> {}, update |-> FALSE], [items |-> {1}, update |-> FALSE],
              [items |-> {}, update |-> TRUE]}

SavePayloads ==
    {PartialPayload(1, DayString(0)), FullPayload(3, [day |-> 1, tod |-> 1])}

NoToken == <<>>

BackfillSamples == [i \in 1..BackfillDays |-> SampleData(i % 2)]

NoFails == [i \in 1..BackfillDays |-> "none"]

FailSeqs == {[i \in 1..BackfillDays |-> "none"],
             [i \in 1..BackfillDays |-> "upsert"],
             [i \in 1..BackfillDays |-> IF i = BackfillDays THEN "update" ELSE "none"]}

(***************************************************************************)
(* The ledger: every write operation, over two owners.                     *)
(***************************************************************************)
Next ==
    \/ \E u \in Users, t \in {"FITBIT", "BOGUS"} :
          ConnectDevice(u, t, "Band", NoToken, NoToken,
                        [i \in 1..BackfillDays |-> SampleData(0)],
                        [i \in 1..BackfillDays |-> "none"], FALSE)
    \/ \E u \in Users, d \in DeviceIds, p \in SyncPayloads, fail \in FailPoints :
          SyncDeviceData(u, d, p, fail)
    \/ \E u \in Users, d \in DeviceIds, arr \in BulkArrays, f \in BulkFails :
          BulkSyncDeviceData(u, d, arr, f.items, f.update)
    \/ \E u \in Users, d \in DeviceIds, data \in SavePayloads, dbFail \in BOOLEAN :
          SaveHealthData(u, d, data, dbFail)
    \/ Tick

Spec == Init /\ [][Next]_vars

(***************************************************************************)
(* The balance calculator over a ledger that device syncs fill and an      *)
(* intake table that meals fill.  Calories count in 1/CalScale kcal.       *)
(***************************************************************************)
BalancePayload(cal, bmr) ==
    Payload(100, cal, 10, bmr, Undef, Undef, Undef, Undef, Undef, NoDate)

BalancePayloads == {EmptyPayload, BalancePayload(8, 32), BalancePayload(3, Undef)}

MealCalories == {Null, 1, 44}

\* the second owner's meals only have to be told apart from the first owner's
MealInputs == {<<"u1", c>> : c \in MealCalories} \cup {<<"u2", 44>>}

NextBalance ==
    \/ \E u \in Users :
          ConnectDevice(u, "FITBIT", "Band", NoToken, NoToken,
                        [i \in 1..BackfillDays |-> SampleData(0)],
                        [i \in 1..BackfillDays |-> "none"], FALSE)
    \/ \E u \in Users, d \in DeviceIds, p \in BalancePayloads :
          SyncDeviceData(u, d, p, "none")
    \/ \E m \in MealInputs : SaveMeal(m[1], m[2])
    \/ \E u \in Users, date \in {DayString(d) : d \in Days} \cup {BadDate} :
          GetDailyBalance(u, date)
    \/ Tick

SpecBalance == Init /\ [][NextBalance]_vars

(***************************************************************************)
(* The balance classification as a function of intake and energy out: the  *)
(* ledger holds one row of one device, the intake table one meal, and the  *)
(* server and the client compute the balance of that day.                  *)
(***************************************************************************)
InitStatus ==
    \E c \in 0..MaxOut, m \in 0..MaxIn :
        LET p == BalancePayload(c, Undef)
        IN  /\ devices = {ConnectCreateData(1, "u1", "FITBIT", "Band", NoToken, NoToken, 0)}
            /\ summaries = UpsertSummary({}, "u1", 1, 0, SyncUpdateData(p, 0),
                                         SyncCreateData("u1", 1, 0, "Band", p, 0))
            /\ meals = {[meal_id |-> 1, user_id |-> "u1", created_at |-> 0, calories |-> m]}
            /\ now = 0
            /\ nextId = 2
            /\ storage = <<>>
            /\ inflight = <<>>
            /\ last = [op |-> "saveMeal", user |-> "u1", dev |-> 0, arg |-> <<>>,
                       ok |-> TRUE, ret |-> <<>>, again |-> FALSE, n |-> MaxCalls]

NextStatus ==
    \/ GetDailyBalance("u1", DayString(0))
    \/ \E m \in meals, r \in summaries : GetLocalBalance(m.calories, r.calories_burned)

SpecStatus == InitStatus /\ [][NextStatus]_vars

(***************************************************************************)
(* The device registry: connect and disconnect, with the syncs that also   *)
(* write the device row.                                                   *)
(***************************************************************************)
ConnectCase(deviceType, deviceName, accessToken, refreshToken, fails, dbFail) ==
    [deviceType |-> deviceType, deviceName |-> deviceName, accessToken |-> accessToken,
     refreshToken |-> refreshToken, fails |-> fails, dbFail |-> dbFail]

\* connect requests: each token shape (absent, empty, present), a second device type,
\* and the failures of the database and of the backfill
ConnectCases ==
    {ConnectCase("FITBIT", "Band", NoToken, NoToken, NoFails, FALSE),
     ConnectCase("FITBIT", "Band", << <<>> >>, << <<"r">> >>, NoFails, FALSE),
     ConnectCase("FITBIT", "Watch", << <<"a">> >>, NoToken, NoFails, FALSE),
     ConnectCase("FITBIT", "Watch", << <<"b">> >>, << <<"r">> >>, NoFails, FALSE),
     ConnectCase("GARMIN", "Watch", << <<"a">> >>, << <<"r">> >>, NoFails, FALSE),
     ConnectCase("FITBIT", "Band", NoToken, NoToken, NoFails, TRUE)}
    \cup {ConnectCase("FITBIT", "Band", << <<"a">> >>, NoToken, f, FALSE) :
             f \in FailSeqs \ {NoFails}}

\* the second owner only has to be told apart from the first
ConnectRequests ==
    ({"u1"} \X ConnectCases)
    \cup {<<"u2", ConnectCase("FITBIT", "Band", NoToken, NoToken, NoFails, FALSE)>>,
          <<"u2", ConnectCase("FITBIT", "Watch", << <<"b">> >>, << <<"r">> >>, NoFails, FALSE)>>}

NextRegistry ==
    \/ \E r \in ConnectRequests :
          ConnectDevice(r[1], r[2].deviceType, r[2].deviceName, r[2].accessToken,
                        r[2].refreshToken, BackfillSamples, r[2].fails, r[2].dbFail)
    \/ \E d \in DeviceIds : DisconnectDevice("u1", d, FALSE)
    \/ \E d \in DeviceIds : SyncDeviceData("u1", d, FullPayload(1, NoDate), "none")
    \/ Tick

SpecRegistry == Init /\ [][NextRegistry]_vars

\* connect requests of both owners with a supported, a second and an unknown deviceType
AccessRequests ==
    {<<"u1", ConnectCase("FITBIT", "Watch", << <<"a">> >>, << <<"r">> >>, NoFails, FALSE)>>,
     <<"u1", ConnectCase("GARMIN", "Band", NoToken, NoToken, NoFails, FALSE)>>,
     <<"u1", ConnectCase("BOGUS", "Band", NoToken, NoToken, NoFails, FALSE)>>,
     <<"u2", ConnectCase("FITBIT", "Watch", << <<"b">> >>, NoToken, NoFails, FALSE)>>,
     <<"u2", ConnectCase("BOGUS", "Band", << <<"a">> >>, NoToken, NoFails, FALSE)>>}

\* connecting and disconnecting by both owners, on their own and on each other's devices
NextAccess ==
    \/ \E r \in AccessRequests :
          ConnectDevice(r[1], r[2].deviceType, r[2].deviceName, r[2].accessToken,
                        r[2].refreshToken, BackfillSamples, r[2].fails, r[2].dbFail)
    \/ \E u \in Users, d \in DeviceIds, dbFail \in BOOLEAN : DisconnectDevice(u, d, dbFail)
    \/ Tick

SpecAccess == Init /\ [][NextAccess]_vars

(***************************************************************************)
(* The balance of an owner who has several devices, each with its own row  *)
(* of the day.                                                             *)
(***************************************************************************)
NextLatest ==
    \/ \E r \in {<<"u1", "FITBIT">>, <<"u1", "GARMIN">>, <<"u2", "FITBIT">>} :
          ConnectDevice(r[1], r[2], "Band", NoToken, NoToken,
                        [i \in 1..BackfillDays |-> SampleData(0)], NoFails, FALSE)
    \/ \E u \in Users, d \in DeviceIds, p \in BalancePayloads :
          SyncDeviceData(u, d, p, "none")
    \/ \E u \in Users, d \in Days : GetDailyBalance(u, DayString(d))
    \/ Tick

SpecLatest == Init /\ [][NextLatest]_vars

(***************************************************************************)
(* Sync-all, from the state in which the first owner has connected a       *)
(* device and a second device has been connected by either owner.          *)
(***************************************************************************)
InitSyncAll ==
    \E o \in Users :
        LET d1 == ConnectCreateData(1, "u1", "FITBIT", "Band", NoToken, NoToken, 0)
            s1 == PerformInitialSync({d1}, {}, "u1", 1, BackfillSamples, NoFails, 1, 0)
            d2 == ConnectCreateData(2, o, "GARMIN", "Watch", NoToken, NoToken, 0)
            s2 == PerformInitialSync(s1.devices \cup {d2}, s1.summaries, o, 2,
                                     BackfillSamples, NoFails, 1, 0)
        IN  /\ devices = s2.devices
            /\ summaries = s2.summaries
            /\ meals = {}
            /\ now = 0
            /\ nextId = 3
            /\ storage = <<>>
            /\ inflight = <<>>
            /\ last = [op |-> "connectDevice", user |-> o, dev |-> 2,
                       arg |-> [deviceType |-> "GARMIN", deviceName |-> "Watch",
                                accessToken |-> NoToken, refreshToken |-> NoToken],
                       ok |-> TRUE, ret |-> <<d2>>, again |-> FALSE, n |-> 0]

SyncAllSamples == [d \in DeviceIds |-> SyncAllSample(d)]

\* which persistence call throws in the sync of each device that sync-all attempts
SyncAllFails(u) ==
    [{x.connected_device_id : x \in ConnectedDevices(devices, u)} -> FailPoints]

NextSyncAll ==
    \/ \E u \in Users : \E failOf \in SyncAllFails(u) :
          SyncAll(u, SyncAllSamples, failOf, FALSE)
    \/ \E u \in Users : SyncAll(u, SyncAllSamples, <<>>, TRUE)
    \/ \E u \in Users, d \in DeviceIds : DisconnectDevice(u, d, FALSE)
    \/ \E u \in Users :
          ConnectDevice(u, "FITBIT", "Band", NoToken, NoToken, BackfillSamples, NoFails, FALSE)
    \/ Tick

SpecSyncAll == InitSyncAll /\ [][NextSyncAll]_vars

(***************************************************************************)
(* Connect with every pattern of failing backfill merges.                  *)
(***************************************************************************)
\* every subset of the 7 merges failing in its upsert, and the patterns of FailSeqs
BackfillFails == [1..BackfillDays -> {"none", "upsert"}] \cup FailSeqs

NextBackfill ==
    \/ \E r \in ({"FITBIT"} \X BackfillFails) \cup {<<"GARMIN", NoFails>>} :
          ConnectDevice("u1", r[1], "Band", NoToken, NoToken, BackfillSamples, r[2], FALSE)
    \/ \E d \in DeviceIds : DisconnectDevice("u1", d, FALSE)
    \/ Tick

SpecBackfill == Init /\ [][NextBackfill]_vars

(***************************************************************************)
(* Syncs whose payloads carry negative counts.                             *)
(***************************************************************************)
NextValues ==
    \/ \E u \in Users :
          ConnectDevice(u, "FITBIT", "Band", NoToken, NoToken, BackfillSamples, NoFails, FALSE)
    \/ \E u \in Users, d \in DeviceIds, p \in {NegativePayload(NoDate), FullPayload(1, NoDate)} :
          SyncDeviceData(u, d, p, "none")
    \/ \E u \in Users, d \in DeviceIds, day \in Days :
          BulkSyncDeviceData(u, d, <<NegativePayload(DayString(day))>>, {}, FALSE)
    \/ Tick

SpecValues == Init /\ [][NextValues]_vars

(***************************************************************************)
(* The trend classifier alone, over every short series of a few values:    *)
(* equal halves, a step of exactly 10% up and down, and a doubling.        *)
(***************************************************************************)
TrendValues == {0, 1000, 1100, 2000}

TrendSeries == UNION {[1..n -> TrendValues] : n \in 0..MaxSeries}

InitTrend ==
    /\ devices = {}
    /\ summaries = {}
    /\ meals = {}
    /\ now = 0
    /\ nextId = 1
    /\ storage = <<>>
    /\ inflight = <<>>
    /\ \E values \in TrendSeries :
          last = [op |-> "series", user |-> "", dev |-> 0, arg |-> values, ok |-> TRUE,
                  ret |-> <<>>, again |-> FALSE, n |-> 0]

NextTrend == CalculateTrend

SpecTrend == InitTrend /\ [][NextTrend]_vars

(***************************************************************************)
(* The analytics over a ledger of two devices: bulk syncs write days       *)
(* before, at and after the window's first day, and getDeviceAnalytics     *)
(* reads windows of 0 to MaxWindow days at any time of the day.            *)
(***************************************************************************)
\* steps, whole kcal burned and active minutes of one day
DayPayload(steps, kcal, minutes, day) ==
    Payload(steps, kcal * CalScale, minutes, Undef, Undef, Undef, Undef, Undef, Undef,
            DayString(day))

AnalyticsArrays ==
    {<<DayPayload(1000, 10, 31, 0 - 2), DayPayload(1101, 11, 30, 0 - 1)>>,
     <<DayPayload(2000, 300, 0, 0 - 3), DayPayload(1100, 13, 32, 0 - 1),
       DayPayload(Undef, Undef, Undef, 1)>>}

NextAnalytics ==
    \/ \E arr \in AnalyticsArrays : BulkSyncDeviceData("u1", 1, arr, {}, FALSE)
    \/ \E u \in Users, d \in DeviceIds, days \in 0..MaxWindow :
          GetDeviceAnalytics(u, d, days, FALSE)
    \/ GetDeviceAnalytics("u1", 1, 0, TRUE)
    \/ Tick

SpecAnalytics == InitSyncAll /\ [][NextAnalytics]_vars

(***************************************************************************)
(* The credential vault: the tokens of a device written by connect,        *)
(* disconnect and updateDeviceTokens and read back by getDeviceTokens.     *)
(***************************************************************************)
TokenChars == {"a", "b", "S"}

\* every string of at most MaxTokenLen characters
Tokens == UNION {[1..n -> TokenChars] : n \in 0..MaxTokenLen}

\* a string without an unpaired surrogate
WellFormed(token) == \A i \in 1..Len(token) : token[i] # "S"

\* accessToken?: absent, "", and tokens with and without an unpaired surrogate
TokenOptions == {NoToken, << <<>> >>, << <<"a">> >>, << <<"a", "b">> >>, << <<"S", "a">> >>}

NextTokens ==
    \/ \E accessToken, refreshToken \in TokenOptions :
          ConnectDevice("u1", "FITBIT", "Watch", accessToken, refreshToken,
                        BackfillSamples, NoFails, FALSE)
    \/ ConnectDevice("u2", "FITBIT", "Band", << <<"b">> >>, NoToken,
                     BackfillSamples, NoFails, FALSE)
    \/ \E u \in Users, d \in DeviceIds : DisconnectDevice(u, d, FALSE)
    \/ \E d \in DeviceIds, accessToken, refreshToken \in {NoToken, << <<"b">> >>},
          dbFail \in BOOLEAN :
          UpdateDeviceTokens("u1", d, accessToken, refreshToken, dbFail)
    \/ \E u \in Users, d \in DeviceIds, dbFail \in BOOLEAN : GetDeviceTokens(u, d, dbFail)

SpecTokens == Init /\ [][NextTokens]_vars

(***************************************************************************)
(* The client agent's reads of a day and its sync of today, against a      *)
(* server that holds one device of the owner.                              *)
(***************************************************************************)
Reading(steps, calories, heartRate, distance, weight) ==
    [steps |-> steps, calories |-> calories, heartRate |-> heartRate,
     distance |-> distance, weight |-> weight]

\* every read answers; one of the five reads fails; the answers hold no value
Readings ==
    {Reading(250, 50 * CalScale, 60, 2, 70),
     Reading(Rejected, 50 * CalScale, 60, 2, 70),
     Reading(250, Rejected, 60, 2, 70),
     Reading(250, 50 * CalScale, Rejected, 2, 70),
     Reading(250, 50 * CalScale, 60, Rejected, 70),
     Reading(250, 50 * CalScale, 60, 2, Rejected),
     Reading(Undef, Undef, Undef, Undef, Undef)}

ClientDates == {d * TicksPerDay : d \in 0..(MaxNow \div TicksPerDay)} \cup {InvalidDate}

NextHealth ==
    \/ ConnectDevice("u1", "APPLE_HEALTH", "Apple Health", NoToken, NoToken,
                     BackfillSamples, NoFails, FALSE)
    \/ \E date \in ClientDates, readings \in Readings, readFails \in BOOLEAN :
          GetDailyHealthData(date, readings, readFails)
    \/ \E platformOS \in {"ios", "android"}, date \in {DayString(0), BadDate},
          readings \in Readings :
          GetHealthDataForDate(platformOS, date, readings, FALSE)
    \/ \E d \in DeviceIds, platformOS \in {"ios", "android"},
          readings \in {r \in Readings : r.calories = 50 * CalScale /\ r.distance = 2},
          net \in {"unreachable", "served", "lost"}, fail \in FailPoints :
          SyncWithServer("u1", d, platformOS, readings, FALSE, net, fail)
    \/ Tick

SpecHealth == Init /\ [][NextHealth]_vars

(***************************************************************************)
(* The client's device list: devices registered with the server and        *)
(* stored locally, and the list read while the server answers or not.      *)
(***************************************************************************)
\* the devices connectDevice stores: Apple Health, and one of another vendor
LocalDevice(id, name, type, isPrimary) ==
    [id |-> id, name |-> name, type |-> type, status |-> "CONNECTED", lastSync |-> now,
     isPrimary |-> isPrimary]

StoredDevices ==
    {LocalDevice("apple_health", "Apple Health", "APPLE_HEALTH", TRUE),
     LocalDevice("fitbit_0", "FITBIT Device", "FITBIT", FALSE)}

Nets == {"served", "refused", "unreachable"}

NextLocal ==
    \/ \E deviceType \in {"APPLE_HEALTH", "FITBIT"} :
          ConnectDevice("u1", deviceType, "Device", NoToken, NoToken,
                        BackfillSamples, NoFails, FALSE)
    \/ \E device \in StoredDevices, net \in Nets, readFails, writeFails \in BOOLEAN :
          StoreLocalDevice("u1", device, net, readFails, writeFails)
    \/ \E deviceId \in {"apple_health", "1"}, net \in Nets :
          RemoveLocalDevice("u1", deviceId, net, FALSE, FALSE)
    \/ \E net \in Nets, readFails \in BOOLEAN : GetConnectedDevices("u1", net, readFails)

SpecLocal == Init /\ [][NextLocal]_vars

(***************************************************************************)
(* Concurrent syncs of one device: a payload with every field and one      *)
(* with the required fields only.                                          *)
(***************************************************************************)
RacePayloads ==
    {FullPayload(1, NoDate),
     Payload(200, 20 * CalScale, 2, Undef, Undef, Undef, Undef, Undef, Undef, NoDate)}

NextRace ==
    \/ ConnectDevice("u1", "FITBIT", "Band", NoToken, NoToken, BackfillSamples, NoFails,
                     FALSE)
    \/ \E d \in DeviceIds, activityData \in RacePayloads : SyncStart("u1", d, activityData)
    \/ \E c \in 1..Len(inflight) : SyncFindFirst(c)
    \/ \E c \in 1..Len(inflight) : SyncUpsertLookup(c)
    \/ \E c \in 1..Len(inflight) : SyncUpsertWrite(c)
    \/ \E c \in 1..Len(inflight) : SyncTouch(c)
    \/ Tick

SpecRace == Init /\ [][NextRace]_vars

(***************************************************************************)
(* Concurrent connects of two owners and two vendors.                      *)
(***************************************************************************)
NextConnectRace ==
    \/ \E deviceType \in {"FITBIT", "GARMIN"}, deviceName \in {"Band", "Watch"} :
          ConnectStart("u1", deviceType, deviceName, NoToken, NoToken)
    \/ \E c \in 1..Len(inflight) : ConnectFindFirst(c)
    \/ \E c \in 1..Len(inflight) : ConnectWrite(c)
    \/ \E c \in 1..Len(inflight) : ConnectBackfill(c, BackfillSamples, NoFails)
    \/ Tick

SpecConnectRace == Init /\ [][NextConnectRace]_vars

(***************************************************************************)
(* Bulk syncs whose array names a day twice, with every field and with     *)
(* the required fields only.                                               *)
(***************************************************************************)
OrderArrays ==
    {<<FullPayload(1, DayString(0)), DayPayload(200, 20, 2, 0)>>,
     <<DayPayload(200, 20, 2, 0), FullPayload(1, DayString(0))>>,
     <<FullPayload(1, DayString(0)), FullPayload(2, DayString(1)),
       FullPayload(3, DayString(0))>>}

NextBulkOrder ==
    \/ ConnectDevice("u1", "FITBIT", "Band", NoToken, NoToken, BackfillSamples, NoFails,
                     FALSE)
    \/ \E d \in DeviceIds, activityDataArray \in OrderArrays, itemFails \in SUBSET {1} :
          BulkSyncDeviceData("u1", d, activityDataArray, itemFails, FALSE)
    \/ Tick

SpecBulkOrder == Init /\ [][NextBulkOrder]_vars

(***************************************************************************)
(* The two routes that take dates in their path.  A path parameter is a    *)
(* string, here a sequence of characters; the response is the status, the  *)
(* success flag and the data of the body, and invoked tells whether the    *)
(* handler called the service.                                             *)
(***************************************************************************)
Digits == {"0", "1", "2", "3", "4", "5", "6", "7", "8", "9"}

\* /^\d{4}-\d{2}-\d{2}$/
DatePattern == <<"d", "d", "d", "d", "-", "d", "d", "-", "d", "d">>

Fits(c, p) == IF p = "d" THEN c \in Digits ELSE c = p

\* the pattern without its closing anchor
MatchPrefix(s, pattern) ==
    /\ Len(s) >= Len(pattern)
    /\ \A i \in 1..Len(pattern) : Fits(s[i], pattern[i])

\* String.prototype.match with a pattern anchored at both ends, as a truth value
Match(s, pattern) ==
    /\ Len(s) = Len(pattern)
    /\ \A i \in 1..Len(pattern) : Fits(s[i], pattern[i])

DigitValue(c) == CHOOSE v \in 0..9 : ToString(v) = c

\* the date a matching parameter names, as new Date(string) reads it: day d of
\* the model is the (d + 1)-th of January 2024 and month 13 gives an Invalid
\* Date; the parameters followed here name no other month
ParamDate(s) ==
    LET month == 10 * DigitValue(s[6]) + DigitValue(s[7])
        dom == 10 * DigitValue(s[9]) + DigitValue(s[10])
    IN  IF month = 1 /\ dom \in 1..31 THEN [day |-> dom - 1, tod |-> 0] ELSE BadDate

\* DeviceService.getActivityData: the rows of the range, newest date first
\* (the order among rows is not kept here)
getActivityData(sums, u, startDate, endDate) ==
    LET gte == NewDate(startDate)
        lte == NewDate(endDate)
    IN  IF gte = InvalidDate \/ lte = InvalidDate
        THEN [ok |-> FALSE, data |-> {}]
        ELSE [ok |-> TRUE,
              data |-> {r \in sums : r.user_id = u /\ r.date >= gte /\ r.date <= lte}]

\* DeviceService.getDailyBalance as the values it can return
getDailyBalance(u, date) ==
    LET startDate == NewDate(date)
        endDate == NextDay(startDate)
        caloriesIn == SumCalories(MealsOfDay(meals, u, startDate, endDate))
        found == LatestActivity(summaries, u, startDate)
    IN  IF startDate = InvalidDate THEN {[ok |-> FALSE, data |-> <<>>]}
        ELSE IF found = {} THEN {[ok |-> TRUE, data |-> <<>>]}
        ELSE {[ok |-> TRUE, data |-> <<DailyBalance(caloriesIn, activityData)>>] :
                 activityData \in found}

Response(status, success, data, invoked) ==
    [status |-> status, success |-> success, data |-> data, invoked |-> invoked]

\* router.get("/activity/:startDate/:endDate")
RouteActivity(u, startDate, endDate) ==
    /\ UNCHANGED <<devices, summaries, meals, now, nextId, storage, inflight>>
    /\ IF ~Match(startDate, DatePattern) \/ ~Match(endDate, DatePattern)
       THEN last' = Other("GET /activity", u, <<startDate, endDate>>, FALSE,
                          <<Response(400, FALSE, <<>>, FALSE)>>)
       ELSE LET activityData == getActivityData(summaries, u, ParamDate(startDate),
                                                ParamDate(endDate))
            IN  IF activityData.ok
                THEN last' = Other("GET /activity", u, <<startDate, endDate>>, TRUE,
                                   <<Response(200, TRUE, activityData.data, TRUE)>>)
                ELSE last' = Other("GET /activity", u, <<startDate, endDate>>, FALSE,
                                   <<Response(500, FALSE, <<>>, TRUE)>>)

\* router.get("/balance/:date")
RouteBalance(u, date) ==
    /\ UNCHANGED <<devices, summaries, meals, now, nextId, storage, inflight>>
    /\ IF ~Match(date, DatePattern)
       THEN last' = Other("GET /balance", u, <<date>>, FALSE,
                          <<Response(400, FALSE, <<>>, FALSE)>>)
       ELSE \E balance \in getDailyBalance(u, ParamDate(date)) :
               IF balance.ok
               THEN last' = Other("GET /balance", u, <<date>>, TRUE,
                                  <<Response(200, TRUE, balance.data, TRUE)>>)
               ELSE last' = Other("GET /balance", u, <<date>>, FALSE,
                                  <<Response(500, FALSE, <<>>, TRUE)>>)

Chars(y, m, d) ==
    <<"2", "0", "2", y, "-", m[1], m[2], "-", d[1], d[2]>>

\* path parameters: two days of the model, a date no calendar holds, and
\* strings that miss the pattern by a character, a separator or their length
DateParams ==
    {Chars("4", <<"0", "1">>, <<"0", "1">>),
     Chars("4", <<"0", "1">>, <<"0", "2">>),
     Chars("4", <<"1", "3">>, <<"0", "1">>),
     Chars("4", <<"0", "1">>, <<"0", "x">>),
     Chars("x", <<"0", "1">>, <<"0", "1">>),
     <<"2", "0", "2", "4", "/", "0", "1", "/", "0", "1">>,
     <<"2", "0", "2", "4", "-", "1", "-", "0", "1">>,
     Chars("4", <<"0", "1">>, <<"0", "1">>) \o <<"1">>,
     Chars("4", <<"0", "1">>, <<"0", "1">>) \o <<"\n">>,
     <<" ">> \o Chars("4", <<"0", "1">>, <<"0", "1">>),
     <<"t", "o", "d", "a", "y">>}

\* pairs in which one parameter matches the pattern, or both are the same
ParamPairs ==
    {p \in DateParams \X DateParams :
        Match(p[1], DatePattern) \/ Match(p[2], DatePattern) \/ p[1] = p[2]}

NextRoutes ==
    \/ ConnectDevice("u1", "FITBIT", "Band", NoToken, NoToken, BackfillSamples, NoFails, FALSE)
    \/ SyncDeviceData("u1", 1, FullPayload(1, NoDate), "none")
    \/ SaveMeal("u1", 44)
    \/ \E p \in ParamPairs : RouteActivity("u1", p[1], p[2])
    \/ \E u \in Users, date \in DateParams : RouteBalance(u, date)
    \/ Tick

SpecRoutes == Init /\ [][NextRoutes]_vars

(***************************************************************************)
(* The AI collaborator.  A text is a sequence of tokens; the upstream call *)
(* throws, answers without a choice, answers with a null content or with a *)
(* text.  apiKey is process.env.OPENAI_API_KEY at the call and client the  *)
(* openai object built when the module was loaded.                         *)
(***************************************************************************)
NoKeyText == <<"AI text generation not available - no API key configured">>
NoResponseText == <<"No response generated">>
FailedText == <<"Text generation failed">>

\* OpenAIService.generateText with a throw of the upstream call left uncaught
generateTextUncaught(apiKey, client, upstream) ==
    IF ~client \/ ~apiKey THEN [ok |-> TRUE, text |-> NoKeyText]
    ELSE IF upstream.kind = "throws" THEN [ok |-> FALSE, text |-> <<>>]
    ELSE IF upstream.kind = "content" /\ upstream.content # <<>>
    THEN [ok |-> TRUE, text |-> upstream.content]
    ELSE [ok |-> TRUE, text |-> NoResponseText]

\* OpenAIService.generateText: ok tells that it returned rather than threw
generateText(apiKey, client, upstream) ==
    IF ~client \/ ~apiKey THEN [ok |-> TRUE, text |-> NoKeyText]
    ELSE IF upstream.kind = "throws" THEN [ok |-> TRUE, text |-> FailedText]
    ELSE IF upstream.kind = "content" /\ upstream.content # <<>>
    THEN [ok |-> TRUE, text |-> upstream.content]
    ELSE [ok |-> TRUE, text |-> NoResponseText]

JsonMembers == {"title", "meals", "days_count"}

\* JSON.parse on the texts followed here: null, a number, or an object whose
\* members are separated by commas; anything else is a SyntaxError
JSONParse(s) ==
    LET inner == SubSeq(s, 2, Len(s) - 1)
        members == {inner[i] : i \in 1..Len(inner)} \cap JsonMembers
    IN  IF s = <<"null">> THEN [ok |-> TRUE, value |-> [kind |-> "null"]]
        ELSE IF s = <<"7">> THEN [ok |-> TRUE, value |-> [kind |-> "number"]]
        ELSE IF /\ Len(s) >= 2 /\ s[1] = "{" /\ s[Len(s)] = "}"
                /\ (inner = <<>> \/ Len(inner) % 2 = 1)
                /\ \A i \in 1..Len(inner) :
                      IF i % 2 = 1 THEN inner[i] \in JsonMembers ELSE inner[i] = ","
        THEN [ok |-> TRUE,
              value |-> [kind |-> "object",
                         title |-> IF "title" \in members THEN "Plan" ELSE "",
                         days_count |-> IF "days_count" \in members THEN 3 ELSE 0,
                         meals |-> IF "meals" \in members THEN <<"meal">> ELSE <<>>]]
        ELSE [ok |-> FALSE, value |-> [kind |-> "none"]]

\* Math.round(n * num / den)
RoundRatio(n, num, den) == (2 * n * num + den) \div (2 * den)

\* RecommendedMenuService.parseMealsPerDay(params.mealsPerDay || "3_main")
parseMealsPerDay(mealsPerDay) ==
    IF mealsPerDay = "2_main" THEN 2
    ELSE IF mealsPerDay = "3_plus_2_snacks" THEN 5
    ELSE 3

\* the three meals of the fallback, as shares of the targets in hundredths
fallbackMeals ==
    <<[name |-> "Protein Breakfast", meal_type |-> "BREAKFAST", c |-> 25, p |-> 30, k |-> 25, f |-> 25],
      [name |-> "Balanced Lunch", meal_type |-> "LUNCH", c |-> 35, p |-> 40, k |-> 40, f |-> 35],
      [name |-> "Light Dinner", meal_type |-> "DINNER", c |-> 30, p |-> 25, k |-> 25, f |-> 30]>>

Min(a, b) == IF a < b THEN a ELSE b

\* RecommendedMenuService.generateFallbackMenu
generateFallbackMenu(params, targets) ==
    LET days == IF params.days \in {Undef, 0} THEN 7 ELSE params.days
        perDay == Min(parseMealsPerDay(params.mealsPerDay), Len(fallbackMeals))
        budget == IF params.budget \in {Undef, 0} THEN 50 ELSE params.budget
    IN  [title |-> <<"Personalized", days, "Day Menu">>,
         description |-> "AI-generated meal plan based on your preferences",
         days_count |-> days,
         total_calories |-> targets.calories * days,
         total_protein |-> targets.protein * days,
         total_carbs |-> targets.carbs * days,
         total_fat |-> targets.fat * days,
         total_fiber |-> 25 * days,
         estimated_cost |-> budget * days,
         meals |-> [i \in 1..(days * perDay) |->
                      LET day == ((i - 1) \div perDay) + 1
                          meal == fallbackMeals[((i - 1) % perDay) + 1]
                      IN  [name |-> <<meal.name, day>>,
                           meal_type |-> meal.meal_type,
                           day_number |-> day,
                           calories |-> RoundRatio(targets.calories, meal.c, 100),
                           protein |-> RoundRatio(targets.protein, meal.p, 100),
                           carbs |-> RoundRatio(targets.carbs, meal.k, 100),
                           fat |-> RoundRatio(targets.fat, meal.f, 100)]]]

\* RecommendedMenuService.validateMenuData; reading a property of null throws
validateMenuData(menuData) ==
    IF menuData.kind = "null" THEN [ok |-> FALSE, menu |-> <<>>]
    ELSE IF menuData.kind = "number"
    THEN [ok |-> TRUE, menu |-> [title |-> "Generated Menu", days_count |-> 7, meals |-> <<>>]]
    ELSE [ok |-> TRUE,
          menu |-> [title |-> IF menuData.title = "" THEN "Generated Menu" ELSE menuData.title,
                    days_count |-> IF menuData.days_count = 0 THEN 7 ELSE menuData.days_count,
                    meals |-> menuData.meals]]

\* RecommendedMenuService.generateMenuWithAI: every throw inside ends in the fallback
generateMenuWithAI(apiKey, client, upstream, params, targets) ==
    LET aiResponse == generateText(apiKey, client, upstream)
        menuData == JSONParse(aiResponse.text)
        valid == validateMenuData(menuData.value)
    IN  IF ~apiKey THEN [ok |-> TRUE, menu |-> generateFallbackMenu(params, targets)]
        ELSE IF aiResponse.ok /\ menuData.ok /\ valid.ok THEN [ok |-> TRUE, menu |-> valid.menu]
        ELSE [ok |-> TRUE, menu |-> generateFallbackMenu(params, targets)]

AiTexts ==
    {<<>>, <<"{", "}">>, <<"{", "title", "}">>,
     <<"{", "title", ",", "meals", ",", "days_count", "}">>,
     <<"{", "title", ",", "}">>, <<"{", "title">>, <<"{", "title", "meals", "}">>,
     <<"~~~json", "{", "title", "}", "~~~">>, <<"Here is your menu:", "{", "}">>,
     <<"null">>, <<"7">>}

Upstreams ==
    {[kind |-> "throws"], [kind |-> "nochoice"], [kind |-> "null"]}
       \cup {[kind |-> "content", content |-> t] : t \in AiTexts}

MenuParams ==
    {[days |-> Undef, mealsPerDay |-> "3_main", budget |-> Undef],
     [days |-> 1, mealsPerDay |-> "3_plus_2_snacks", budget |-> 20],
     [days |-> 2, mealsPerDay |-> "2_main", budget |-> 20]}

\* what calculateNutritionTargets gives from a nutrition plan without goals and
\* from one with goals
MenuTargets ==
    {[calories |-> 2000, protein |-> 150, carbs |-> 250, fat |-> 67],
     [calories |-> 1800, protein |-> 120, carbs |-> 200, fat |-> 60]}

GenerateText(apiKey, client, upstream) ==
    LET r == generateText(apiKey, client, upstream)
    IN  /\ last' = Other("generateText", "u1", [apiKey |-> apiKey, client |-> client,
                                              upstream |-> upstream], r.ok, <<r.text>>)
        /\ UNCHANGED <<devices, summaries, meals, now, nextId, storage, inflight>>

GenerateMenuWithAI(apiKey, client, upstream, params, targets) ==
    LET r == generateMenuWithAI(apiKey, client, upstream, params, targets)
    IN  /\ last' = Other("generateMenuWithAI", "u1",
                         [apiKey |-> apiKey, client |-> client, upstream |-> upstream,
                          params |-> params, targets |-> targets], r.ok, <<r.menu>>)
        /\ UNCHANGED <<devices, summaries, meals, now, nextId, storage, inflight>>

NextAI ==
    \/ \E apiKey \in BOOLEAN, client \in BOOLEAN, upstream \in Upstreams :
          GenerateText(apiKey, client, upstream)
    \/ \E apiKey \in BOOLEAN, client \in BOOLEAN, upstream \in Upstreams,
          params \in MenuParams, targets \in MenuTargets :
          GenerateMenuWithAI(apiKey, client, upstream, params, targets)

SpecAI == Init /\ [][NextAI]_vars

(***************************************************************************)
(* Token bookkeeping of one owner's device through connect, token update,  *)
(* disconnect and sync.                                                    *)
(***************************************************************************)
ExpiryTokens == {NoToken, << <<>> >>, << <<"a">> >>}

NextExpiry ==
    \/ \E accessToken, refreshToken \in ExpiryTokens :
          ConnectDevice("u1", "FITBIT", "Watch", accessToken, refreshToken,
                        BackfillSamples, NoFails, FALSE)
    \/ \E d \in DeviceIds : DisconnectDevice("u1", d, FALSE)
    \/ \E d \in DeviceIds, accessToken, refreshToken \in ExpiryTokens :
          UpdateDeviceTokens("u1", d, accessToken, refreshToken, FALSE)
    \/ \E d \in DeviceIds : SyncDeviceData("u1", d, FullPayload(1, NoDate), "none")
    \/ Tick

SpecExpiry == Init /\ [][NextExpiry]_vars

(***************************************************************************)
(* The client's DeviceAPIService.syncDevice and syncAllDevices for the     *)
(* devices that are synced through their vendor API (the apple_health      *)
(* branch is syncWithServer above).  A case tells what the calls outside   *)
(* this file do: hasToken, whether getDeviceTokens finds an access token;  *)
(* fetch, whether the vendor fetch throws, gives null or gives data;       *)
(* postNet, whether the POST reaches the server; fail, the persistence     *)
(* call that throws in the server.  accepted tells whether the server      *)
(* answered success: true.                                                 *)
(***************************************************************************)
SupportedSync == {"GOOGLE_FIT", "FITBIT", "WHOOP", "POLAR", "GARMIN", "SAMSUNG_HEALTH"}

\* what the vendor fetch gives
FetchedData ==
    [steps |-> 300, caloriesBurned |-> 30 * CalScale, activeMinutes |-> 3,
     distance |-> 2, heartRate |-> 62]

\* the activityData of the POST /devices/${deviceId}/sync body
ClientSyncBody(activityData) ==
    Payload(OrZero(activityData.steps), OrZero(activityData.caloriesBurned),
            OrZero(activityData.activeMinutes), DefaultBmr * CalScale,
            activityData.heartRate, Undef, Undef, Undef, activityData.distance, NoDate)

syncDevice(devs, sums, store, u, deviceId, listNet, case, nowv) ==
    LET found == getConnectedDevices(devs, store, u, listNet, FALSE)
        device == SelectSeq(found, LAMBDA x : x.id = deviceId)
        ids == {d \in DeviceIds : ToString(d) = deviceId}
        none == [devices |-> devs, summaries |-> sums, ret |-> FALSE, accepted |-> FALSE]
    IN  IF device = <<>> THEN none
        ELSE IF ~case.hasToken \/ device[1].type \notin SupportedSync THEN none
        ELSE IF case.fetch # "data" THEN none
        ELSE IF case.postNet # "served" \/ ids = {} THEN [none EXCEPT !.ret = TRUE]
        ELSE LET r == SyncDeviceDataEff(devs, sums, u, CHOOSE d \in ids : TRUE,
                                        ClientSyncBody(FetchedData), case.fail, nowv)
             IN  [devices |-> r.devices, summaries |-> r.summaries, ret |-> TRUE,
                  accepted |-> r.ok]

ClientSyncDevice(u, deviceId, listNet, case) ==
    /\ MayCall
    /\ LET r == syncDevice(devices, summaries, storage, u, deviceId, listNet, case, now)
       IN  /\ devices' = r.devices
           /\ summaries' = r.summaries
           /\ last' = Call("syncDevice", u, 0, [deviceId |-> deviceId, case |-> case,
                                                accepted |-> r.accepted], TRUE,
                           <<[value |-> r.ret]>>)
    /\ UNCHANGED <<meals, now, nextId, storage, inflight>>

\* the loop of syncAllDevices over connectedDevices from position i on; cases[i]
\* is the case of the i-th device
RECURSIVE ClientSyncLoop(_, _, _, _, _, _, _, _, _, _)
ClientSyncLoop(devs, sums, store, u, connectedDevices, listNet, cases, nowv, i, count) ==
    IF i > Len(connectedDevices)
    THEN [devices |-> devs, summaries |-> sums, count |-> count]
    ELSE LET r == syncDevice(devs, sums, store, u, connectedDevices[i].id, listNet,
                             cases[i], nowv)
         IN  ClientSyncLoop(r.devices, r.summaries, store, u, connectedDevices, listNet,
                         cases, nowv, i + 1,
                         [success |-> count.success + (IF r.ret THEN 1 ELSE 0),
                          failed |-> count.failed + (IF r.ret THEN 0 ELSE 1),
                          accepted |-> count.accepted + (IF r.accepted THEN 1 ELSE 0)])

ClientSyncAllDevices(u, listNet, cases) ==
    /\ MayCall
    /\ LET found == getConnectedDevices(devices, storage, u, listNet, FALSE)
           connectedDevices == SelectSeq(found, LAMBDA x : x.status = "CONNECTED")
           r == ClientSyncLoop(devices, summaries, storage, u, connectedDevices, listNet,
                            cases, now, 1, [success |-> 0, failed |-> 0, accepted |-> 0])
       IN  /\ devices' = r.devices
           /\ summaries' = r.summaries
           /\ last' = Call("syncAllDevices", u, 0,
                           [connected |-> Len(connectedDevices),
                            accepted |-> r.count.accepted], TRUE,
                           <<[success |-> r.count.success, failed |-> r.count.failed]>>)
    /\ UNCHANGED <<meals, now, nextId, storage, inflight>>

SyncCase(hasToken, fetch, postNet, fail) ==
    [hasToken |-> hasToken, fetch |-> fetch, postNet |-> postNet, fail |-> fail]

SyncCases ==
    {SyncCase(TRUE, "data", "served", "none"),
     SyncCase(TRUE, "data", "served", "upsert"),
     SyncCase(TRUE, "data", "unreachable", "none"),
     SyncCase(TRUE, "null", "served", "none"),
     SyncCase(TRUE, "throws", "served", "none"),
     SyncCase(FALSE, "data", "served", "none")}

\* the cases of a batch: every device the same, or the first one different
BatchCases ==
    {[i \in 1..MaxDevices |-> IF i = 1 THEN a ELSE b] :
        a \in SyncCases, b \in {SyncCase(TRUE, "data", "served", "none")}}

NextClientSync ==
    \/ \E deviceType \in {"FITBIT", "GARMIN", "OURA"} :
          ConnectDevice("u1", deviceType, "Device", NoToken, NoToken,
                        BackfillSamples, NoFails, FALSE)
    \/ \E d \in DeviceIds : DisconnectDevice("u1", d, FALSE)
    \/ \E d \in DeviceIds, listNet \in {"served", "unreachable"}, case \in SyncCases :
          ClientSyncDevice("u1", ToString(d), listNet, case)
    \/ \E cases \in BatchCases : ClientSyncAllDevices("u1", "served", cases)
    \/ Tick

SpecClientSync == Init /\ [][NextClientSync]_vars

(***************************************************************************)
(* Properties of the ledger.                                               *)
(***************************************************************************)
Today == NewDate(ToISODate(now))

SameKey(r1, r2) ==
    /\ r1.user_id = r2.user_id
    /\ r1.device_id = r2.device_id
    /\ r1.date \div TicksPerDay = r2.date \div TicksPerDay

\* a row without its sync timestamp: the payload-derived part and the key
Stored(r) == [f \in (DOMAIN r) \ {"sync_timestamp"} |-> r[f]]

\* the ledger row a payload describes, field by field: an absent optional field is absent
PayloadRow(p) ==
    [steps |-> OrZero(p.steps), calories_burned |-> OrZero(p.caloriesBurned),
     active_minutes |-> OrZero(p.activeMinutes), bmr_estimate |-> OrZero(p.bmr),
     heart_rate_avg |-> IF p.heartRate = Undef THEN Null ELSE p.heartRate,
     weight_kg |-> IF p.weight = Undef THEN Null ELSE p.weight,
     body_fat_percentage |-> IF p.bodyFat = Undef THEN Null ELSE p.bodyFat,
     sleep_hours |-> IF p.sleepHours = Undef THEN Null ELSE p.sleepHours,
     distance_km |-> IF p.distance = Undef THEN Null ELSE p.distance]

Numbers(r) == [f \in SummaryNumeric |-> r[f]]

\* C1: after any sequence of syncDeviceData, bulkSyncDeviceData, performInitialSync
\* and saveHealthData calls, no two ledger rows share owner, device and calendar date.
C1_LedgerKeyUnique ==
    \A r1 \in summaries, r2 \in summaries : SameKey(r1, r2) => r1 = r2

\* a saveHealthData call has merged into a row that a device sync created, and the
\* ledger holds rows of several keys
C1_Witness ==
    /\ last.op = "saveHealthData" /\ last.ok
    /\ \E r \in last.ret[1] : r.source_device # "HealthKit" /\ r \in summaries
    /\ Cardinality(summaries) >= 2

\* C2: a successful syncDeviceData with payload P2 leaves, at the key it wrote, a row
\* whose every numeric field is P2's value, whatever an earlier payload P1 stored there.
C2_MergeOverwritesAll ==
    [][\A u \in Users, d \in DeviceIds, p \in SyncPayloads :
          (SyncDeviceData(u, d, p, "none") /\ last'.ok)
          => \A r \in SummaryAt(summaries', u, d, Today) : Numbers(r) = PayloadRow(p)]_vars

\* C4: a successful syncDeviceData merges the payload into the row keyed by the date
\* supplied with the payload (today when none is supplied), and creates or changes no
\* row of any other key.
C4_SyncWritesSuppliedDate ==
    [][\A u \in Users, d \in DeviceIds, p \in SyncPayloads :
          (SyncDeviceData(u, d, p, "none") /\ last'.ok)
          => LET D == IF p.date = NoDate THEN Today ELSE NewDate(p.date)
                 target(r) == r.user_id = u /\ r.device_id = d /\ r.date = DateColumn(D)
             IN  /\ \E r \in summaries' : target(r) /\ r.raw_data = p
                 /\ {r \in summaries' : ~target(r)} = {r \in summaries : ~target(r)}]_vars

\* C5: a syncDeviceData call that repeats the call before it (same owner, device, date
\* and payload) leaves the number of rows and every field of every row unchanged, the
\* sync timestamp excepted.
C5_SyncIdempotent ==
    [][(last'.op = "syncDeviceData" /\ last'.again /\ last'.n = last.n + 1)
          => /\ {Stored(r) : r \in summaries'} = {Stored(r) : r \in summaries}
             /\ Cardinality(summaries') = Cardinality(summaries)]_vars

\* the repeated call has been made, after the clock moved on within the day
C5_Witness ==
    /\ last.op = "syncDeviceData" /\ last.again
    /\ \E r \in last.ret[1] : r.raw_data # EmptyPayload /\ r.sync_timestamp > r.date

\* C3: a connectDevice whose backfill had no failing merge leaves one row of the
\* connected device on each of the 7 trailing calendar dates, today included.
C3_BackfillSevenDays ==
    [][\A q \in ConnectRequests :
          LET u == q[1]
              c == q[2]
          IN
          (/\ c.fails = NoFails
           /\ ConnectDevice(u, c.deviceType, c.deviceName, c.accessToken, c.refreshToken,
                            BackfillSamples, c.fails, c.dbFail)
           /\ last'.ok)
          => \A k \in 0..(BackfillDays - 1) :
                Cardinality({r \in summaries' :
                                /\ r.user_id = u
                                /\ r.device_id = last'.dev
                                /\ r.date = Today - k * TicksPerDay}) = 1]_vars

(***************************************************************************)
(* Properties of the device registry.                                      *)
(***************************************************************************)
\* C6: no owner has two Device rows of one deviceType, and a connect of a deviceType
\* the owner already has changes that row in place: no row is added, the id is kept,
\* the status is CONNECTED, and the tokens are the newly supplied ones, cleared when
\* none is supplied.
C6_RegistryUnique ==
    [][/\ \A x \in devices', y \in devices' :
             (x.user_id = y.user_id /\ x.device_type = y.device_type) => x = y
       /\ \A e \in devices :
             (/\ last'.op = "connectDevice" /\ last'.ok /\ last'.n = last.n + 1
              /\ e.user_id = last'.user /\ e.device_type = last'.arg.deviceType)
             => /\ {x.connected_device_id : x \in devices'}
                      = {x.connected_device_id : x \in devices}
                /\ last'.dev = e.connected_device_id
                /\ \E x \in devices' :
                      /\ x.connected_device_id = e.connected_device_id
                      /\ x.connection_status = "CONNECTED"
                      /\ x.access_token_encrypted
                            = IF last'.arg.accessToken \in {<<>>, << <<>> >>} THEN <<>>
                              ELSE <<encryptToken(last'.arg.accessToken[1])>>
                      /\ x.refresh_token_encrypted
                            = IF last'.arg.refreshToken \in {<<>>, << <<>> >>} THEN <<>>
                              ELSE <<encryptToken(last'.arg.refreshToken[1])>>]_vars

\* a connect has just updated a device that has a ledger row older than the call:
\* it replaced the access token and cleared the refresh token
C6_Witness ==
    /\ last.op = "connectDevice" /\ last.ok
    /\ last.arg.accessToken = << <<"a">> >> /\ last.arg.refreshToken = <<>>
    /\ \E x \in devices :
          /\ x.connected_device_id = last.dev
          /\ x.access_token_encrypted # <<>> /\ x.refresh_token_encrypted = <<>>
          /\ \E r \in summaries : r.device_id = last.dev /\ r.sync_timestamp < x.last_sync_time

(***************************************************************************)
(* Properties of the balance.                                              *)
(***************************************************************************)
\* C7: getDailyBalance gives the "no data" result, null, for a day whose rows all have
\* calories_burned + bmr_estimate = 0, whatever the intake.
C7_ZeroOutIsNoData ==
    LET day == {r \in summaries : r.user_id = last.user /\ r.date = NewDate(last.arg)}
    IN  (/\ last.op = "getDailyBalance" /\ last.ok
         /\ day # {}
         /\ \A r \in day : OrZero(r.calories_burned) + OrZero(r.bmr_estimate) = 0)
        => last.ret = <<>>

\* C8: getDailyBalance returns null exactly when the ledger has no row of the owner on
\* the date; the intake records play no part in that.
C8_NullIffNoActivity ==
    (last.op = "getDailyBalance" /\ last.ok)
    => (last.ret = <<>>
        <=> ~ \E r \in summaries : r.user_id = last.user /\ r.date = NewDate(last.arg))

\* null was returned for an owner who has intake on the date and no ledger row, while
\* another owner has a row on that date
C8_Witness ==
    /\ last.op = "getDailyBalance" /\ last.ok /\ last.ret = <<>>
    /\ \E m \in meals :
          /\ m.user_id = last.user /\ OrZero(m.calories) > 0
          /\ m.created_at \div TicksPerDay = NewDate(last.arg) \div TicksPerDay
    /\ \E r \in summaries : r.user_id # last.user /\ r.date = NewDate(last.arg)

\* C9: for caloriesOut > 0 the status is "balanced" when |caloriesIn - caloriesOut| is
\* at most 10% of caloriesOut, "slight_imbalance" when it is above 10% and at most 25%,
\* "significant_imbalance" otherwise, in the server's and in the client's computation;
\* caloriesIn and caloriesOut are the quantities the status is computed from.
C9_Thresholds ==
    (last.op \in {"getDailyBalance", "localDailyBalance"} /\ last.ok /\ last.ret # <<>>)
    => LET row == CHOOSE r \in summaries : r.user_id = "u1"
           in == IF last.op = "localDailyBalance" THEN OrZero(last.arg[1])
                 ELSE SumCalories({m \in meals : m.user_id = last.user})
           out == IF last.op = "localDailyBalance" THEN OrZero(last.arg[2])
                  ELSE OrZero(row.calories_burned) + OrZero(row.bmr_estimate)
           diff == IF in < out THEN out - in ELSE in - out
       IN  out > 0
           => last.ret[1].balanceStatus
                 = IF 100 * diff <= 10 * out THEN "balanced"
                   ELSE IF 100 * diff <= 25 * out THEN "slight_imbalance"
                   ELSE "significant_imbalance"

\* the server classified a surplus of exactly 25% of caloriesOut
C9_Witness ==
    /\ last.op = "getDailyBalance" /\ last.ret # <<>>
    /\ last.ret[1].balanceStatus = "slight_imbalance"
    /\ \E r \in summaries, m \in meals :
          /\ r.calories_burned = MaxOut
          /\ 4 * (m.calories - r.calories_burned) = r.calories_burned

\* C10 as stated: caloriesIn is the sum of the calories of the owner's intake records
\* with date <= t < date + 1 day, caloriesOut is calories_burned + bmr_estimate of a
\* row of the day, and balance is caloriesIn minus caloriesOut.
C10_BalanceExact ==
    (last.op = "getDailyBalance" /\ last.ok /\ last.ret # <<>>)
    => LET start == NewDate(last.arg)
           in == SumCalories({m \in meals : /\ m.user_id = last.user
                                            /\ start <= m.created_at
                                            /\ m.created_at < start + TicksPerDay})
       IN  /\ last.ret[1].caloriesIn * CalScale = in
           /\ \E r \in summaries :
                 /\ r.user_id = last.user /\ r.date = start
                 /\ last.ret[1].caloriesOut * CalScale
                       = OrZero(r.calories_burned) + OrZero(r.bmr_estimate)
           /\ last.ret[1].balance = last.ret[1].caloriesIn - last.ret[1].caloriesOut

\* C10, amended: caloriesIn is that sum rounded to the nearest integer, caloriesOut is
\* calories_burned + bmr_estimate of a row of the day rounded likewise, and balance is
\* the difference of the two unrounded quantities, rounded (halves round up).
C10_BalanceRounded ==
    (last.op = "getDailyBalance" /\ last.ok /\ last.ret # <<>>)
    => LET start == NewDate(last.arg)
           in == SumCalories({m \in meals : /\ m.user_id = last.user
                                            /\ start <= m.created_at
                                            /\ m.created_at < start + TicksPerDay})
           Nearest(k, x) == (2 * k - 1) * CalScale <= 2 * x /\ 2 * x < (2 * k + 1) * CalScale
       IN  /\ Nearest(last.ret[1].caloriesIn, in)
           /\ \E r \in summaries :
                 LET out == OrZero(r.calories_burned) + OrZero(r.bmr_estimate)
                 IN  /\ r.user_id = last.user /\ r.date = start
                     /\ Nearest(last.ret[1].caloriesOut, out)
                     /\ Nearest(last.ret[1].balance, in - out)

\* a balance was computed for a day with intake, for an owner who also has an intake
\* record at the very start of the next day
C10_Witness ==
    /\ last.op = "getDailyBalance" /\ last.ok /\ last.ret # <<>>
    /\ last.ret[1].caloriesIn > 0
    /\ \E m \in meals :
          /\ m.user_id = last.user /\ OrZero(m.calories) > 0
          /\ m.created_at = NewDate(last.arg) + TicksPerDay

\* C11: when an owner has several rows of the date, getDailyBalance computes its
\* result from the one with the greatest sync timestamp, and reading the same stored
\* state again gives the same result.
C11_LatestDeterministic ==
    [][(last'.op = "getDailyBalance" /\ last'.ok /\ last'.ret # <<>>)
          => /\ \E r \in summaries' :
                   /\ r.user_id = last'.user /\ r.date = NewDate(last'.arg)
                   /\ \A o \in summaries' :
                         (o.user_id = r.user_id /\ o.date = r.date)
                         => o.sync_timestamp <= r.sync_timestamp
                   /\ last'.ret[1].caloriesOut
                         = MathRound(OrZero(r.calories_burned) + OrZero(r.bmr_estimate))
             /\ (/\ last.op = "getDailyBalance" /\ last.ok
                 /\ last.user = last'.user /\ last.arg = last'.arg)
                => last'.ret = last.ret]_vars

\* C12: a bulkSyncDeviceData on an owned device whose device update succeeds returns,
\* whichever items fail to merge: the returned list holds exactly the records of the
\* items that merged, in payload order, and every merged item is in the ledger.
C12_BulkIsolatesFailures ==
    [][(/\ last'.op = "bulkSyncDeviceData" /\ last'.n = last.n + 1
        /\ \E x \in devices :
              x.connected_device_id = last'.dev /\ x.user_id = last'.user)
       => \A arr \in BulkArrays, f \in BulkFails :
          (~f.update /\ BulkSyncDeviceData(last'.user, last'.dev, arr, f.items, f.update))
          => LET u == last'.user
                 d == last'.dev
                 Merged == {i \in 1..Len(arr) : i \notin f.items /\ arr[i].date # BadDate}
                 Key(i) == DateColumn(NewDate(arr[i].date))
                 Rank(i) == Cardinality({j \in Merged : j <= i})
                 Final(i) == CHOOSE j \in Merged :
                                /\ Key(j) = Key(i)
                                /\ \A k \in Merged : Key(k) = Key(i) => k <= j
             IN  /\ last'.ok
                 /\ Len(last'.ret[1]) = Cardinality(Merged)
                 /\ \A i \in Merged :
                       /\ last'.ret[1][Rank(i)].raw_data = arr[i]
                       /\ last'.ret[1][Rank(i)].date = Key(i)
                       /\ \E r \in summaries' :
                             /\ r.user_id = u /\ r.device_id = d /\ r.date = Key(i)
                             /\ r.raw_data = arr[Final(i)]]_vars

\* a bulk call has returned two records, of the first and of the third item of a
\* payload whose second item failed, and both are in the ledger
C12_Witness ==
    /\ last.op = "bulkSyncDeviceData" /\ last.ok
    /\ Len(last.ret[1]) = 2
    /\ last.ret[1][1].raw_data.date = DayString(1)
    /\ last.ret[1][2].raw_data.date = DayString(0)
    /\ \A i \in 1..2 : last.ret[1][i] \in summaries

\* C15: a connectDevice with a deviceType outside the 12 supported vendors fails and
\* leaves the devices and the ledger as they were: nothing is created or updated and
\* no backfill runs.
C15_UnknownTypeRejected ==
    [][(/\ last'.op = "connectDevice" /\ last'.n = last.n + 1
        /\ last'.arg.deviceType \notin
              {"APPLE_HEALTH", "GOOGLE_FIT", "FITBIT", "GARMIN", "WHOOP", "SAMSUNG_HEALTH",
               "POLAR", "SUUNTO", "WITHINGS", "OURA", "AMAZFIT", "HUAWEI_HEALTH"})
          => /\ ~last'.ok
             /\ devices' = devices
             /\ summaries' = summaries
             /\ nextId' = nextId]_vars

\* a connect with an unknown deviceType has failed for an owner who has a device
C15_Witness ==
    /\ last.op = "connectDevice" /\ ~last.ok
    /\ last.arg.deviceType = "BOGUS"
    /\ \E x \in devices : x.user_id = last.user
    /\ \E r \in summaries : r.user_id = last.user

\* C16: a successful disconnectDevice sets the owner's device to DISCONNECTED and
\* clears its access token, refresh token and token expiry; the row stays, no other
\* device changes and the ledger is unchanged.
C16_DisconnectFrame ==
    [][(last'.op = "disconnectDevice" /\ last'.ok /\ last'.n = last.n + 1)
          => /\ summaries' = summaries
             /\ \E e \in devices :
                   /\ e.connected_device_id = last'.dev /\ e.user_id = last'.user
                   /\ devices' = (devices \ {e})
                         \cup {[e EXCEPT !.connection_status = "DISCONNECTED",
                                         !.access_token_encrypted = <<>>,
                                         !.refresh_token_encrypted = <<>>,
                                         !.token_expires_at = <<>>]}]_vars

\* a device that was connected with tokens (every "Watch" request carries an access
\* token) and has ledger rows has been disconnected
C16_Witness ==
    /\ last.op = "disconnectDevice" /\ last.ok
    /\ \E x \in devices :
          /\ x.connected_device_id = last.dev /\ x.device_name = "Watch"
          /\ x.connection_status = "DISCONNECTED"
          /\ x.access_token_encrypted = <<>> /\ x.token_expires_at = <<>>
    /\ \E r \in summaries : r.device_id = last.dev

\* C17: a disconnectDevice for an id that is no device of the owner (no such id, or
\* another owner's device) fails and changes no device.
C17_DisconnectNotOwned ==
    [][(/\ last'.op = "disconnectDevice" /\ last'.n = last.n + 1
        /\ ~ \E e \in devices :
                e.connected_device_id = last'.dev /\ e.user_id = last'.user)
          => ~last'.ok /\ devices' = devices]_vars

\* a disconnect of another owner's connected device, which holds tokens, has failed
C17_Witness ==
    /\ last.op = "disconnectDevice" /\ ~last.ok
    /\ \E e \in devices :
          /\ e.connected_device_id = last.dev /\ e.user_id # last.user
          /\ e.connection_status = "CONNECTED" /\ e.access_token_encrypted # <<>>

\* C18: a syncDeviceData or bulkSyncDeviceData for an id that is no device of the
\* owner fails and changes nothing: no ledger row and no device row.
C18_SyncNotOwned ==
    [][(/\ last'.op \in {"syncDeviceData", "bulkSyncDeviceData"} /\ last'.n = last.n + 1
        /\ ~ \E e \in devices :
                e.connected_device_id = last'.dev /\ e.user_id = last'.user)
          => ~last'.ok /\ devices' = devices /\ summaries' = summaries]_vars

\* a bulk sync into another owner's device, which has ledger rows, has failed
C18_Witness ==
    /\ last.op = "bulkSyncDeviceData" /\ ~last.ok
    /\ \E e \in devices : e.connected_device_id = last.dev /\ e.user_id # last.user
    /\ \E r \in summaries : r.device_id = last.dev

\* C19: a device that connectDevice creates is primary exactly when the owner had no
\* device before, so no owner has two primary devices.
C19_PrimaryOnlyFirst ==
    [][(/\ last'.op = "connectDevice" /\ last'.ok /\ last'.n = last.n + 1
        /\ nextId' = nextId + 1)
          => /\ last'.ret[1].is_primary_device
                   <=> ~ \E e \in devices : e.user_id = last'.user
             /\ \A x \in devices', y \in devices' :
                   (x.user_id = y.user_id /\ x.is_primary_device /\ y.is_primary_device)
                   => x = y]_vars

\* C20: every ledger row has steps >= 0, calories_burned >= 0 and active_minutes >= 0
\* wherever it holds a number, whatever values the payloads carried.
C20_NonNegativeCounts ==
    \A r \in summaries :
        /\ r.steps = Null \/ r.steps >= 0
        /\ r.calories_burned = Null \/ r.calories_burned >= 0
        /\ r.active_minutes = Null \/ r.active_minutes >= 0

(***************************************************************************)
(* Properties of sync-all.                                                 *)
(***************************************************************************)
\* C13: sync-all attempts a sync for every CONNECTED device of the owner and for no
\* other device: a device whose sync does not fail is synced whatever happens to the
\* others, every other device and its rows are untouched, and successful_syncs +
\* failed_syncs = total_devices = the number of CONNECTED devices of the owner.
C13_SyncAllIsolates ==
    [][(last'.op = "syncAll" /\ last'.ok /\ last'.n = last.n + 1)
       => \A failOf \in [{x.connected_device_id :
                             x \in {y \in devices : y.user_id = last'.user}}
                          -> FailPoints] :
          SyncAll(last'.user, SyncAllSamples, failOf, FALSE)
          => LET u == last'.user
                 mine == {x \in devices : x.user_id = u /\ x.connection_status = "CONNECTED"}
                 ids == {x.connected_device_id : x \in mine}
                 good == {d \in ids : failOf[d] = "none"}
             IN  /\ last'.ok
                 /\ last'.ret[1].total_devices = Cardinality(mine)
                 /\ last'.ret[1].successful_syncs = Cardinality(good)
                 /\ last'.ret[1].successful_syncs + last'.ret[1].failed_syncs
                       = last'.ret[1].total_devices
                 /\ \A d \in good :
                       /\ \E r \in summaries' :
                             /\ r.user_id = u /\ r.device_id = d /\ r.date = Today
                             /\ r.raw_data = SyncAllSamples[d]
                       /\ \E x \in devices' :
                             x.connected_device_id = d /\ x.last_sync_time = now
                 /\ {x \in devices' : x.connected_device_id \notin ids}
                       = {x \in devices : x.connected_device_id \notin ids}
                 /\ {r \in summaries' : r.device_id \notin ids}
                       = {r \in summaries : r.device_id \notin ids}]_vars

\* sync-all has run for an owner with a disconnected device and a connected one
\* whose sync failed: one device counted, none synced
C13_Witness ==
    /\ last.op = "syncAll" /\ last.ok
    /\ last.ret[1].total_devices = 2
    /\ last.ret[1].successful_syncs = 1 /\ last.ret[1].failed_syncs = 1
    /\ \E x \in devices : /\ x.user_id = last.user /\ x.last_sync_time = now
                           /\ \E r \in summaries : /\ r.device_id = x.connected_device_id
                                                    /\ r.raw_data = SyncAllSamples[r.device_id]

\* C14: a connectDevice with a supported deviceType whose own lookup and write succeed
\* returns the device with status CONNECTED, and the stored device is CONNECTED,
\* whichever of the 7 backfill merges fail; no backfill failure reaches the caller.
C14_ConnectSurvivesBackfill ==
    [][(/\ last'.op = "connectDevice" /\ last'.n = last.n + 1
        /\ last'.arg.deviceType \in validDeviceTypes)
          => /\ last'.ok
             /\ last'.ret # <<>>
             /\ last'.ret[1].connected_device_id = last'.dev
             /\ last'.ret[1].connection_status = "CONNECTED"
             /\ \E x \in devices' :
                   /\ x.connected_device_id = last'.dev /\ x.user_id = last'.user
                   /\ x.connection_status = "CONNECTED"]_vars

\* a connect has returned its device although every backfill merge failed: the device
\* has no ledger row
C14_Witness ==
    /\ last.op = "connectDevice" /\ last.ok
    /\ \E x \in devices : x.connected_device_id = last.dev /\ x.connection_status = "CONNECTED"
    /\ ~ \E r \in summaries : r.device_id = last.dev

TrendRule(values) ==
    LET n1 == Len(values) \div 2
        n2 == Len(values) - n1
        s1 == SumSeq(SubSeq(values, 1, n1))
        s2 == SumSeq(SubSeq(values, n1 + 1, Len(values)))
    IN  IF Len(values) < 2 THEN "stable"
        ELSE IF 10 * ((s2 * n1) - (s1 * n2)) > s1 * n2 THEN "increasing"
        ELSE IF 10 * ((s2 * n1) - (s1 * n2)) < 0 - (s1 * n2) THEN "decreasing"
        ELSE "stable"

\* C22: calculateTrend returns "stable" for a series shorter than 2; otherwise, with
\* the series split at floor(n/2), "increasing" when the second half's average exceeds
\* the first half's by more than 10% of the first half's average, "decreasing" when it
\* is lower by more than 10%, and "stable" otherwise.
C22_TrendByRule ==
    (last.op = "calculateTrend") => last.ret[1] = TrendRule(last.arg)

\* the ledger rows of (owner, device) dated from today - days to today, for the call
\* that last has recorded in this step
RowsInWindow(sums, call, nowv) ==
    {r \in sums : /\ r.user_id = call.user
                  /\ r.device_id = call.dev
                  /\ (nowv \div TicksPerDay) - call.arg <= r.date \div TicksPerDay
                  /\ r.date \div TicksPerDay <= nowv \div TicksPerDay}

RECURSIVE SumOf(_, _)
SumOf(rows, f) ==
    IF rows = {} THEN 0
    ELSE LET r == CHOOSE x \in rows : TRUE
         IN  OrZero(r[f]) + SumOf(rows \ {r}, f)

ReadsBackConnect ==
    /\ last'.op = "getDeviceTokens" /\ ~last'.again
    /\ last.op = "connectDevice" /\ last.ok
    /\ last'.user = last.user /\ last'.dev = last.dev

ReadBack(tok) == IF tok = <<>> \/ tok[1] = <<>> THEN <<>> ELSE tok

Fetched(readings, date) ==
    [steps |-> OrZero(readings.steps),
     caloriesBurned |-> OrZero(readings.calories),
     heartRate |-> OrZero(readings.heartRate),
     distance |-> OrZero(readings.distance),
     activeMinutes |-> OrZero(readings.steps) \div 100,
     date |-> ToISODate(date)]

SameMetrics(data, fetched) ==
    \A f \in DOMAIN fetched : data[f] = fetched[f]

AllAnswered(readings) ==
    \A f \in DOMAIN readings : readings[f] # Rejected

\* C26 as stated: a getDailyHealthData call for a date during which the platform
\* fetch fails, made after a call for the same date whose fetch succeeded, returns the
\* values of the earlier fetch.
C26_CachedAfterFetch ==
    [][(/\ last'.op = "getDailyHealthData" /\ last'.ok
        /\ last.op = "getDailyHealthData" /\ last.ok
        /\ last'.arg.date = last.arg.date
        /\ AllAnswered(last.arg.readings)
        /\ ~AllAnswered(last'.arg.readings))
          => SameMetrics(last'.ret[1], Fetched(last.arg.readings, last.arg.date))]_vars

\* C27 as stated: getDailyHealthData, for a day, never rejects; when a read of a
\* metric fails it returns the cached record of the date if there is one and the
\* all-zero record otherwise; when the weight read alone fails it returns the other
\* fetched metrics.
C27_NeverRejects ==
    [][(last'.op = "getDailyHealthData" /\ last'.arg.date # InvalidDate)
          => /\ last'.ok
             /\ LET readings == last'.arg.readings
                    date == last'.arg.date
                    others == [f \in DOMAIN readings \ {"weight"} |-> readings[f]]
                IN  /\ ~AllAnswered(others)
                       => last'.ret[1] \in
                             {getDefaultHealthData(date)}
                             \cup {Parse(storage[k]) : k \in DOMAIN storage \cap {HealthKey(date)}}
                    /\ (AllAnswered(others) /\ readings.weight = Rejected)
                       => SameMetrics(last'.ret[1], Fetched(readings, date))]_vars

\* C28: a syncWithServer call sends at most one request, which carries the record of
\* one day for the device named, never raises, and returns true only when the one
\* request was answered with success.
C28_OneRequestNoRetry ==
    [][(last'.op = "syncWithServer" /\ last'.n = last.n + 1)
          => /\ last'.ok
             /\ Len(last'.arg.requests) <= 1
             /\ \A i \in 1..Len(last'.arg.requests) :
                   /\ last'.arg.requests[i].deviceId = last'.dev
                   /\ last'.arg.requests[i].activityData.bmr = DefaultBmr * CalScale
                   /\ last'.arg.requests[i].activityData.steps \in Nat
             /\ last'.ret[1] = TRUE
                   => /\ last'.arg.responses = <<TRUE>>
                      /\ Len(last'.arg.requests) = 1
             /\ Cardinality(summaries' \ summaries) <= 1
             /\ Cardinality(summaries') <= Cardinality(summaries) + 1]_vars

\* a sync whose one request the server answered with success, today's row of the
\* device written from it
C28_Witness ==
    /\ last.op = "syncWithServer"
    /\ Len(last.arg.requests) = 1
    /\ last.arg.responses = <<TRUE>> /\ last.ret = <<TRUE>>
    /\ \E r \in summaries :
          /\ r.device_id = last.dev /\ r.date = DateColumn(now)
          /\ r.bmr_estimate = DefaultBmr * CalScale

(***************************************************************************)
(* C29: the client's device list without the server.                       *)
(***************************************************************************)
\* C29: getConnectedDevices never raises; when the server request fails or is
\* answered without success it returns exactly the stored device list, and the empty
\* list when nothing is stored or the stored list cannot be read.
C29_LocalFallback ==
    [][last'.op = "getConnectedDevices"
          => /\ last'.ok
             /\ last'.arg.net # "served"
                   => last'.ret[1] = IF \/ last'.arg.readFails
                                        \/ DevicesKey \notin DOMAIN storage
                                     THEN <<>>
                                     ELSE storage[DevicesKey].json]_vars

\* the server does not answer and the list stored before, a device taken from the
\* server and Apple Health after it, is returned
C29_Witness ==
    /\ last.op = "getConnectedDevices" /\ last.arg.net = "unreachable"
    /\ Len(last.ret[1]) = 2
    /\ last.ret[1][1].id = "1"
    /\ last.ret[1][2].id = "apple_health"

(***************************************************************************)
(* C30: two syncs of one key at the same time.                             *)
(***************************************************************************)
PayloadColumns == SummaryNumeric \cup {"raw_data"}

\* the payload-derived columns of the row are those the payload alone gives
FromPayload(row, activityData) ==
    LET alone == ApplyCreate(SyncCreateData(row.user_id, row.device_id, row.date,
                                            row.source_device, activityData, 0))
    IN  \A f \in PayloadColumns : row[f] = alone[f]

\* C30 as stated: when two syncDeviceData calls for the same owner, device and day
\* with payloads P1 and P2 have run concurrently and both have returned, the ledger
\* holds exactly one row for the key and its payload-derived columns all come from P1
\* or all from P2.
C30_RaceOneWriter ==
    \A i, j \in 1..Len(inflight) :
        (/\ i < j /\ Len(inflight) = 2
         /\ inflight[i].pc = "done" /\ inflight[j].pc = "done"
         /\ inflight[i].user = inflight[j].user /\ inflight[i].dev = inflight[j].dev
         /\ inflight[i].date = inflight[j].date
         /\ inflight[i].activityData # inflight[j].activityData)
        => LET rows == SummaryAt(summaries, inflight[i].user, inflight[i].dev,
                                 inflight[i].date)
           IN  /\ Cardinality(rows) = 1
               /\ \A row \in rows :
                     \/ FromPayload(row, inflight[i].activityData)
                     \/ FromPayload(row, inflight[j].activityData)

(***************************************************************************)
(* C31: two connects of one owner and vendor at the same time.             *)
(***************************************************************************)
\* C31: when the connectDevice calls in progress have all returned or thrown,
\* with their lookups and creates interleaved in any order, no owner has two
\* Device rows of one deviceType.
C31_RaceOneDevice ==
    (\A c \in 1..Len(inflight) : inflight[c].pc \in {"done", "failed"})
        => \A x \in devices, y \in devices :
              (x.user_id = y.user_id /\ x.device_type = y.device_type)
                 => x.connected_device_id = y.connected_device_id

\* two calls for one owner and deviceType both looked up before either created:
\* one has returned, the other has thrown, and the owner has one row
C31_Witness ==
    /\ Len(inflight) = 2
    /\ inflight[1].user = inflight[2].user
    /\ inflight[1].deviceType = inflight[2].deviceType
    /\ inflight[1].existing = <<>> /\ inflight[2].existing = <<>>
    /\ {inflight[1].pc, inflight[2].pc} = {"done", "failed"}
    /\ Cardinality({x \in devices : /\ x.user_id = inflight[1].user
                                     /\ x.device_type = inflight[1].deviceType}) = 1

(***************************************************************************)
(* C32: the order of the merges of one bulk sync.                          *)
(***************************************************************************)
\* C32 as stated: after a bulkSyncDeviceData call, when two payloads of the array
\* carry the same date, the row stored for that date has the fields of the later one.
\* (results holds the row each upsert returned, and its raw_data is the payload.)
C32_BulkLaterWins ==
    [][(last'.op = "bulkSyncDeviceData" /\ last'.ok /\ last'.n = last.n + 1)
          => LET results == last'.ret[1]
             IN  \A i, j \in 1..Len(results) :
                    (/\ i < j
                     /\ results[i].date = results[j].date
                     /\ \A k \in (j + 1)..Len(results) : results[k].date # results[j].date)
                    => \A row \in SummaryAt(summaries', last'.user, last'.dev,
                                            results[j].date) :
                          FromPayload(row, results[j].raw_data)]_vars


\* C33: a request to GET /activity/{startDate}/{endDate} or GET /balance/{date}
\* in which some date parameter is not exactly 4 digits, dash, 2 digits, dash,
\* 2 digits is answered 400 with success = false, and the service is not invoked.
C33_BadDateIs400 ==
    [][(last'.op \in {"GET /activity", "GET /balance"}
          /\ \E i \in 1..Len(last'.arg) :
                LET s == last'.arg[i]
                IN  ~(/\ Len(s) = 10
                      /\ \A k \in 1..Len(s) :
                            IF k \in {5, 8} THEN s[k] = "-" ELSE s[k] \in Digits))
         => /\ last'.ret[1].status = 400
            /\ ~last'.ret[1].success
            /\ ~last'.ret[1].invoked]_vars

\* a request with a parameter one character too long has been answered
C33_Witness ==
    /\ last.op = "GET /activity"
    /\ Len(last.arg[1]) = 10
    /\ Len(last.arg[2]) = 11
    /\ last.ret[1].status = 400


\* C34: generateText returns a string and does not raise, with or without a
\* credential and whether or not the upstream call fails; generateMenuWithAI
\* returns the fallback menu when the credential is absent, when the upstream
\* call fails and when the AI response does not parse as JSON.
C34_AiNeverFails ==
    [][(last'.op = "generateText"
          => (last'.ok /\ last'.ret[1] \in Seq(STRING)))
       /\
       ((/\ last'.op = "generateMenuWithAI"
         /\ \/ ~last'.arg.apiKey
            \/ ~last'.arg.client
            \/ last'.arg.upstream.kind = "throws"
            \/ /\ last'.arg.upstream.kind = "content"
               /\ ~JSONParse(last'.arg.upstream.content).ok)
          => (/\ last'.ok
              /\ last'.ret[1] = generateFallbackMenu(last'.arg.params,
                                                     last'.arg.targets)))]_vars

\* the upstream call failed with a credential present and the caller received
\* the fallback menu of two days
C34_Witness ==
    /\ last.op = "generateMenuWithAI"
    /\ last.arg.apiKey /\ last.arg.client
    /\ last.arg.upstream.kind = "throws"
    /\ last.ok
    /\ last.ret[1].days_count = 2
    /\ Len(last.ret[1].meals) = 4


\* C35 as stated: a Device that disconnect has set to DISCONNECTED keeps that
\* status through every step that is not a connect call, so no sync request
\* leaves it CONNECTED with the tokens that the disconnect cleared.
C35_DisconnectedStays ==
    [][last'.op # "connectDevice"
         => \A x \in devices :
               x.connection_status = "DISCONNECTED"
                  => \A y \in devices' :
                        y.connected_device_id = x.connected_device_id
                           => y.connection_status = "DISCONNECTED"]_vars


\* C36 as stated: a syncDeviceData call that reports failure to its caller,
\* the failure of the device update after the ledger upsert included, leaves
\* the ledger as it was: no ActivityRecord is added or modified.
C36_SyncAllOrNothing ==
    [][(last'.op = "syncDeviceData" /\ ~last'.ok /\ last'.n = last.n + 1)
         => summaries' = summaries]_vars


\* C37 as stated: in every reachable state the device of each ActivityRecord
\* is a Device of the record's owner.
C37_RecordDeviceOwned ==
    \A r \in summaries :
        \E x \in devices :
            /\ x.connected_device_id = r.device_id
            /\ x.user_id = r.user_id


\* C38: in every reachable state a Device has a token expiry recorded if and
\* only if it has an access token stored, whatever connect, token update (with
\* either, both or neither token), disconnect and sync calls came before.
C38_ExpiryIffAccess ==
    \A x \in devices :
        (x.token_expires_at # <<>>) <=> (x.access_token_encrypted # <<>>)

\* a token update that carried a refresh token alone has left a device with a
\* refresh token and neither access token nor expiry
C38_Witness ==
    /\ last.op = "updateDeviceTokens"
    /\ last.ok
    /\ \E x \in devices :
          /\ x.connected_device_id = last.dev
          /\ x.refresh_token_encrypted # <<>>
          /\ x.access_token_encrypted = <<>>
          /\ x.token_expires_at = <<>>


\* C39 as stated: syncDevice returns true only if the server accepted the
\* record, and syncAllDevices reports success + failed equal to the number of
\* CONNECTED devices with success counting only the records the server accepted.
C39_TrueOnlyIfAccepted ==
    [][((last'.op = "syncDevice" /\ last'.n = last.n + 1)
          => (last'.ret[1].value => last'.arg.accepted))
       /\
       ((last'.op = "syncAllDevices" /\ last'.n = last.n + 1)
          => (/\ last'.ret[1].success + last'.ret[1].failed = last'.arg.connected
              /\ last'.ret[1].success = last'.arg.accepted))]_vars


\* C40 as stated: for the same activity record and the same intake total, the
\* balance the client computes locally and the balance the server computes
\* have the same caloriesOut, the same balance and the same balanceStatus, and
\* the one is null exactly when the other is (the server's is not null when
\* the record exists).
C40_LocalLikeServer ==
    [][last'.op = "localDailyBalance"
         => \A m \in meals, r \in summaries :
               (last'.arg = <<m.calories, r.calories_burned>>)
                  => LET server == DailyBalance(m.calories, r)
                     IN  /\ last'.ret # <<>>
                         /\ last'.ret[1].caloriesOut = server.caloriesOut * CalScale
                         /\ last'.ret[1].balance = server.balance * CalScale
                         /\ last'.ret[1].balanceStatus = server.balanceStatus]_vars

====
